---- MODULE Spec2Model ----
(***************************************************************************)
(* Chimera: temporal alignment and lagged correlation discovery.           *)
(*                                                                         *)
(* Time is counted in ticks; HOUR ticks make one hour and tick 0 lies on   *)
(* an hour boundary.  A cell of an aligned column is <<>> (the missing     *)
(* marker, pandas NaN) or <<v>> with v the value multiplied by Scale, so   *)
(* that hourly means stay integers.                                        *)
(***************************************************************************)
EXTENDS Integers, Sequences, FiniteSets, TLC

\* ------------------------------------------------------------------------
\* Bounds of the model
\* ------------------------------------------------------------------------
\* last tick at which a raw sample of the sub-hourly data sets may lie
MaxTime == 4
\* largest number of raw samples of one source in the sub-hourly data sets
MaxSamples == 2
\* number of hourly slots of the hourly data sets
MaxHours == 4
\* number of rows of the aligned tables handed directly to the scanner
ScanLen == 3
\* last second of the clock in the runs that share the processed bucket
MaxClock == 2
\* entries of the activity log after which no further button is clicked and
\* no further refresh starts
MaxLogged == 2
\* calls of logActivity in a long session of the dashboard
MaxCalls == 52

\* ticks per hour: the step of the hourly heartbeat, freq='1H'
HOUR == 2

\* values a raw sample may carry
Values == {0, 1}

\* ------------------------------------------------------------------------
\* Small helpers
\* ------------------------------------------------------------------------
Max(S) == CHOOSE x \in S : \A y \in S : y <= x

Min(S) == CHOOSE x \in S : \A y \in S : x <= y

Abs(x) == IF x < 0 THEN -x ELSE x

RECURSIVE Gcd(_, _)
Gcd(a, b) == IF b = 0 THEN a ELSE Gcd(b, a % b)

RECURSIVE LcmUpTo(_)
LcmUpTo(n) == IF n <= 1 THEN 1 ELSE (LcmUpTo(n - 1) * n) \div Gcd(LcmUpTo(n - 1), n)

\* every cell value is stored multiplied by Scale; a mean of up to
\* MaxSamples integer samples is then an integer
Scale == LcmUpTo(MaxSamples)

RECURSIVE SumSeq(_)
SumSeq(s) == IF s = <<>> THEN 0 ELSE Head(s) + SumSeq(Tail(s))

Range(seq) == {seq[i] : i \in 1..Len(seq)}

Missing == <<>>

Some(v) == <<v>>

IsMissing(cell) == cell = Missing

\* ------------------------------------------------------------------------
\* Sources, columns and fill policies
\* ------------------------------------------------------------------------
Sources == {"market", "schumann"}

\* Market: reindex(ffill); Geomagnetic/Schumann/GCP: resample('1H').mean()
FillPolicy(s) == IF s = "market" THEN "ForwardFill" ELSE "MeanAggregate"

\* a column id "<category>_<field>" is kept as its "_"-separated parts
ColumnId(s) ==
    IF s = "market" THEN <<"market", "vix", "close">> ELSE <<"schumann", "amplitude">>

\* order in which the sources are merged into the wide table
SourceOrder == <<"market", "schumann">>

\* the store holds no record for a source that was never ingested
NoRecord == [present |-> FALSE, records |-> <<>>]

\* the latest successfully ingested record set of a source
Stored(records) == [present |-> TRUE, records |-> records]

\* a raw field: a number, null (absent) or text that is no number
Num(v) == [kind |-> "num", n |-> v]

Null == [kind |-> "null", n |-> 0]

Text == [kind |-> "text", n |-> 0]

\* ------------------------------------------------------------------------
\* Series Loader
\* ------------------------------------------------------------------------
\* numeric coercion of one field: the number, or nothing
ParseNumber(field) == IF field.kind = "num" THEN Some(field.n) ELSE Missing

RECURSIVE InsertByTs(_, _)
InsertByTs(sorted, rec) ==
    IF sorted = <<>> THEN <<rec>>
    ELSE IF rec.ts < Head(sorted).ts THEN <<rec>> \o sorted
    ELSE <<Head(sorted)>> \o InsertByTs(Tail(sorted), rec)

RECURSIVE SortByTs(_)
SortByTs(s) ==
    IF s = <<>> THEN <<>>
    ELSE InsertByTs(SortByTs(SubSeq(s, 1, Len(s) - 1)), s[Len(s)])

RECURSIVE DropUnparsed(_)
DropUnparsed(records) ==
    IF records = <<>> THEN <<>>
    ELSE LET r == Head(records)
             p == ParseNumber(r.value)
         IN  (IF IsMissing(p) THEN <<>> ELSE <<[ts |-> r.ts, value |-> p[1]]>>)
             \o DropUnparsed(Tail(records))

\* the timestamp-indexed numeric series of one stored record set
LoadSeries(records) == SortByTs(DropUnparsed(records))

\* ------------------------------------------------------------------------
\* Master index (hourly heartbeat)
\* ------------------------------------------------------------------------
FirstTs(series) == series[1].ts

LastTs(series) == series[Len(series)].ts

\* common time range: max start date -> min end date
CommonStart(seriesSet) == Max({FirstTs(x) : x \in seriesSet})

CommonEnd(seriesSet) == Min({LastTs(x) : x \in seriesSet})

\* date_range that leaves the end instant out
MasterIndexOpenEnd(start, end) ==
    IF start >= end THEN <<>>
    ELSE [i \in 1..((end - start - 1) \div HOUR + 1) |-> start + (i - 1) * HOUR]

\* pd.date_range(start, end, freq='1H'): start, start + 1h, ... while <= end
MasterIndex(start, end) ==
    IF start > end THEN <<>>
    ELSE [i \in 1..((end - start) \div HOUR + 1) |-> start + (i - 1) * HOUR]

\* ------------------------------------------------------------------------
\* Frequency Normalizer
\* ------------------------------------------------------------------------
\* reindex(master_index, method='bfill'): the first label at or after
ReindexBfill(series, grid) ==
    [i \in 1..Len(grid) |->
        LET after == {k \in 1..Len(series) : series[k].ts >= grid[i]}
        IN  IF after = {} THEN Missing
            ELSE Some(series[Min(after)].value * Scale)]

\* reindex(master_index, method='ffill'): the row of the last index label
\* at or before the grid instant
ReindexFfill(series, grid) ==
    [i \in 1..Len(grid) |->
        LET before == {k \in 1..Len(series) : series[k].ts <= grid[i]}
        IN  IF before = {} THEN Missing
            ELSE Some(series[Max(before)].value * Scale)]

HourFloor(t) == t - (t % HOUR)

InBin(series, label) ==
    SelectSeq(series, LAMBDA r : label <= r.ts /\ r.ts < label + HOUR)

ValuesOf(series) == [k \in 1..Len(series) |-> series[k].value]

\* resample('1H').mean(): one row per clock hour that holds samples, labelled
\* by the left edge of the hour, the mean of the samples of [label, label+1h)
ResampleMean(series) ==
    [label \in {HourFloor(series[k].ts) : k \in 1..Len(series)} |->
        (SumSeq(ValuesOf(InBin(series, label))) * Scale)
            \div Len(InBin(series, label))]

\* the resampled frame kept on its own hourly index, never reindexed
ReindexMeanOwnIndex(resampled, grid) ==
    IF DOMAIN resampled = {} THEN <<>>
    ELSE [i \in 1..((Max(DOMAIN resampled) - Min(DOMAIN resampled)) \div HOUR + 1) |->
            LET label == Min(DOMAIN resampled) + (i - 1) * HOUR
            IN  IF label \in DOMAIN resampled THEN Some(resampled[label]) ELSE Missing]

\* merging the resampled frame on the master index aligns rows by label
ReindexMean(resampled, grid) ==
    [i \in 1..Len(grid) |->
        IF grid[i] \in DOMAIN resampled THEN Some(resampled[grid[i]])
        ELSE Missing]

\* normalize(series, grid, policy) -> the values of an AlignedColumn
Normalize(series, grid, policy) ==
    IF policy = "ForwardFill" THEN ReindexFfill(series, grid)
    ELSE ReindexMean(ResampleMean(series), grid)

\* ------------------------------------------------------------------------
\* Master Aligner
\* ------------------------------------------------------------------------
NoTable ==
    [grid |-> <<>>, order |-> <<>>, columns |-> [c \in {} |-> <<>>],
     source |-> [c \in {} |-> ""]]

\* no source is used unless every source has a record in the store
AvailableAllOrNothing(store) ==
    IF \A s \in Sources : store[s].present THEN Sources ELSE {}

\* sources that have a record in the store (the others are SourceUnavailable)
Available(store) == {s \in Sources : store[s].present}

\* the loaded series that have a first and a last timestamp
Ranged(store) == {LoadSeries(store[s].records) : s \in Available(store)} \ {<<>>}

\* the grid when a source without a single parsed sample empties the range
GridOfAllOrNothing(store) ==
    IF Ranged(store) = {} \/ \E s \in Available(store) : LoadSeries(store[s].records) = <<>>
    THEN <<>>
    ELSE MasterIndex(CommonStart(Ranged(store)), CommonEnd(Ranged(store)))

GridOf(store) ==
    IF Ranged(store) = {} THEN <<>>
    ELSE MasterIndex(CommonStart(Ranged(store)), CommonEnd(Ranged(store)))

SourceOfColumn(c) == CHOOSE s \in Sources : ColumnId(s) = c

\* the wide table on the hourly grid, with its provenance
AlignedTable(store) ==
    LET grid == GridOf(store)
        cols == {ColumnId(s) : s \in Available(store)}
        used == SelectSeq(SourceOrder, LAMBDA s : s \in Available(store))
    IN  [grid |-> grid,
         order |-> [k \in 1..Len(used) |-> ColumnId(used[k])],
         columns |-> [c \in cols |->
             Normalize(LoadSeries(store[SourceOfColumn(c)].records), grid,
                       FillPolicy(SourceOfColumn(c)))],
         source |-> [c \in cols |-> SourceOfColumn(c)]]

\* a minimum that is only enforced when the grid is shorter by two
InsufficientOverlapOffByOne(grid, minPoints) == Len(grid) < minPoints - 1

\* fewer hourly points than the configured minimum (an empty range included)
InsufficientOverlap(grid, minPoints) == Len(grid) < minPoints

\* ------------------------------------------------------------------------
\* Data sets in the store when a run is triggered
\* ------------------------------------------------------------------------
Ticks == 0..MaxTime

SeqsUpTo(n, R) == UNION {[1..k -> R] : k \in 1..n}

StrictlyIncreasing(s) == \A i \in 1..(Len(s) - 1) : s[i].ts < s[i + 1].ts

NonDecreasing(s) == \A i \in 1..(Len(s) - 1) : s[i].ts <= s[i + 1].ts

MarketFields == {Num(v) : v \in Values} \cup {Null, Text}

EnvFields == {Num(v) : v \in Values}

\* daily/hourly market bars: unique timestamps, fields that may not parse
RichMarket ==
    {s \in SeqsUpTo(MaxSamples, [ts : Ticks, value : MarketFields]) : StrictlyIncreasing(s)}

\* irregular sensor readings: timestamps may repeat
RichEnv ==
    {s \in SeqsUpTo(MaxSamples, [ts : Ticks, value : EnvFields]) : NonDecreasing(s)}

\* a series that only fixes a time range, or no record at all
Sparse ==
    {<<[ts |-> MaxTime, value |-> Num(1)]>>}
    \cup {<<[ts |-> a, value |-> Num(1)], [ts |-> b, value |-> Num(1)]>> :
            a \in 0..HOUR, b \in (MaxTime - 1)..MaxTime}

\* a partner source: a sparse series, or never ingested
Partner == {Stored(x) : x \in Sparse} \cup {NoRecord}

SubHourlyData ==
    {[market |-> Stored(m), schumann |-> e] : m \in RichMarket, e \in Partner}
    \cup {[market |-> m, schumann |-> Stored(e)] : m \in Partner, e \in RichEnv}

RECURSIVE Compact(_, _)
\* the samples of an hourly pattern f: one per hour h with f[h] a value
Compact(f, h) ==
    IF h >= MaxHours THEN <<>>
    ELSE (IF f[h] \in Values THEN <<[ts |-> h * HOUR, value |-> Num(f[h])]>> ELSE <<>>)
         \o Compact(f, h + 1)

\* one bar per hour, on the hour
HourlyMarket ==
    {[i \in 1..MaxHours |-> [ts |-> (i - 1) * HOUR, value |-> Num(f[i])]] :
        f \in [1..MaxHours -> Values]}

\* at most one reading per hour, on the hour
HourlyEnv == {Compact(f, 0) : f \in [0..(MaxHours - 1) -> Values \cup {-1}]} \ {<<>>}

HourlyData ==
    {[market |-> Stored(m), schumann |-> Stored(e)] : m \in HourlyMarket, e \in HourlyEnv}

Datasets ==
    SubHourlyData \cup HourlyData \cup {[market |-> NoRecord, schumann |-> NoRecord]}

\* ------------------------------------------------------------------------
\* Correlation Scanner
\* ------------------------------------------------------------------------
\* c.startswith('market_')
\* the test without the prefix: every named column passes
HasName(c) == Len(c) > 1

IsMarketColumn(c) == Len(c) > 1 /\ c[1] = "market"

MarketColumns(t) == SelectSeq(t.order, IsMarketColumn)

EnvColumns(t) == SelectSeq(t.order, LAMBDA c : ~IsMarketColumn(c))

\* the environmental column shifted the other way: row i holds env[i + lag]
ShiftForward(col, lag) ==
    [i \in 1..Len(col) |-> IF i + lag <= Len(col) THEN col[i + lag] ELSE Missing]

\* the environmental column shifted by lag hours: row i holds env[i - lag]
Shift(col, lag) == [i \in 1..Len(col) |-> IF i > lag THEN col[i - lag] ELSE Missing]

\* rows at which both the market value and the shifted value are present
Overlap(mcol, shifted) ==
    {i \in 1..Len(mcol) : ~IsMissing(mcol[i]) /\ ~IsMissing(shifted[i])}

RECURSIVE SumOver(_, _)
\* sum of f[i] over the rows i of the set rows
SumOver(f, rows) ==
    IF rows = {} THEN 0
    ELSE LET i == CHOOSE k \in rows : TRUE IN f[i] + SumOver(f, rows \ {i})

\* n * sum(xy) - sum(x) * sum(y): n^2 times the covariance of x and y on rows
NCov(x, y, rows) ==
    Cardinality(rows) * SumOver([i \in rows |-> x[i][1] * y[i][1]], rows)
    - SumOver([i \in rows |-> x[i][1]], rows) * SumOver([i \in rows |-> y[i][1]], rows)

\* floor of the square root of q, for q up to 100 * 100
ISqrt(q) == CHOOSE k \in 0..100 : k * k <= q /\ (k + 1) * (k + 1) > q

\* the Pearson coefficient in hundredths, truncated toward zero:
\* cov / (std_x * std_y) with the same divisor n in all three
Pearson(x, y, rows) ==
    LET c == NCov(x, y, rows)
        v == NCov(x, x, rows) * NCov(y, y, rows)
        a == ISqrt((10000 * c * c) \div v)
    IN  IF c < 0 THEN -a ELSE a

\* |r| >= 0.3
DefaultThreshold == 30

\* the comparison against the default threshold whatever is configured
AtLeastDefault(x, y, rows, threshold) ==
    10000 * NCov(x, y, rows) * NCov(x, y, rows)
        >= DefaultThreshold * DefaultThreshold * NCov(x, x, rows) * NCov(y, y, rows)

\* |r| >= threshold (in hundredths), decided without rounding
AtLeast(x, y, rows, threshold) ==
    10000 * NCov(x, y, rows) * NCov(x, y, rows)
        >= threshold * threshold * NCov(x, x, rows) * NCov(y, y, rows)

\* a triple evaluated with sample_size taken from the market column alone
EvaluateCountingMarket(t, m, e, lag, cfg) ==
    LET mcol == t.columns[m]
        shifted == Shift(t.columns[e], lag)
        rows == Overlap(mcol, shifted)
        n == Cardinality(rows)
        outcome ==
            IF n < cfg.min_sample_size THEN "small"
            ELSE IF NCov(mcol, mcol, rows) = 0 \/ NCov(shifted, shifted, rows) = 0
                 THEN "degenerate"
            ELSE IF AtLeast(shifted, mcol, rows, cfg.threshold) THEN "finding"
            ELSE "weak"
    IN  [market_factor |-> m, environmental_factor |-> e, lag_hours |-> lag,
         sample_size |-> Cardinality({i \in 1..Len(mcol) : ~IsMissing(mcol[i])}),
         outcome |-> outcome,
         correlation |-> IF outcome \in {"finding", "weak"}
                         THEN Pearson(shifted, mcol, rows) ELSE 0]

\* a triple evaluated without the zero-variance test: a constant sample is
\* compared with the threshold like any other, its coefficient taken as 0
EvaluateWithoutVarianceCheck(t, m, e, lag, cfg) ==
    LET mcol == t.columns[m]
        shifted == Shift(t.columns[e], lag)
        rows == Overlap(mcol, shifted)
        n == Cardinality(rows)
        flat == NCov(mcol, mcol, rows) = 0 \/ NCov(shifted, shifted, rows) = 0
        outcome ==
            IF n < cfg.min_sample_size THEN "small"
            ELSE IF AtLeast(shifted, mcol, rows, cfg.threshold) THEN "finding"
            ELSE "weak"
    IN  [market_factor |-> m, environmental_factor |-> e, lag_hours |-> lag,
         sample_size |-> n,
         outcome |-> outcome,
         correlation |-> IF outcome \in {"finding", "weak"} /\ ~flat
                         THEN Pearson(shifted, mcol, rows) ELSE 0]

\* one (market column, environmental column, lag) triple of the scan
Evaluate(t, m, e, lag, cfg) ==
    LET mcol == t.columns[m]
        shifted == Shift(t.columns[e], lag)
        rows == Overlap(mcol, shifted)
        n == Cardinality(rows)
        outcome ==
            IF n < cfg.min_sample_size THEN "small"
            ELSE IF NCov(mcol, mcol, rows) = 0 \/ NCov(shifted, shifted, rows) = 0
                 THEN "degenerate"
            ELSE IF AtLeast(shifted, mcol, rows, cfg.threshold) THEN "finding"
            ELSE "weak"
    IN  [market_factor |-> m, environmental_factor |-> e, lag_hours |-> lag,
         sample_size |-> n,
         outcome |-> outcome,
         correlation |-> IF outcome \in {"finding", "weak"}
                         THEN Pearson(shifted, mcol, rows) ELSE 0]

RECURSIVE Flatten(_)
Flatten(ss) == IF ss = <<>> THEN <<>> ELSE Head(ss) \o Flatten(Tail(ss))

\* every triple in scan order: market columns, then environmental columns,
\* then the configured lags
ScanLog(t, cfg) ==
    LET ms == MarketColumns(t)
        es == EnvColumns(t)
    IN  Flatten([i \in 1..Len(ms) |->
            Flatten([j \in 1..Len(es) |->
                [k \in 1..Len(cfg.lags) |->
                    Evaluate(t, ms[i], es[j], cfg.lags[k], cfg)]])])

\* an entry of top_correlations typed "lagged" whatever its lag
FindingAlwaysLagged(ev) ==
    [market_factor |-> ev.market_factor,
     environmental_factor |-> ev.environmental_factor,
     correlation |-> ev.correlation,
     lag_hours |-> ev.lag_hours,
     sample_size |-> ev.sample_size,
     type |-> "lagged"]

Finding(ev) ==
    [market_factor |-> ev.market_factor,
     environmental_factor |-> ev.environmental_factor,
     correlation |-> ev.correlation,
     lag_hours |-> ev.lag_hours,
     sample_size |-> ev.sample_size,
     type |-> IF ev.lag_hours = 0 THEN "instant" ELSE "lagged"]

\* a scan that keeps only the strongest lag of each pair of columns
ScanStrongestLagPerPair(t, cfg) ==
    LET log == ScanLog(t, cfg)
        Stronger(a, b) ==
            \/ Abs(a.correlation) > Abs(b.correlation)
            \/ Abs(a.correlation) = Abs(b.correlation) /\ a.lag_hours < b.lag_hours
        kept == SelectSeq(log, LAMBDA ev :
                    /\ ev.outcome = "finding"
                    /\ ~\E k \in 1..Len(log) :
                          /\ log[k].outcome = "finding"
                          /\ log[k].market_factor = ev.market_factor
                          /\ log[k].environmental_factor = ev.environmental_factor
                          /\ Stronger(log[k], ev))
    IN  [k \in 1..Len(kept) |-> Finding(kept[k])]

\* scan(table, config) -> the retained findings, in scan order
Scan(t, cfg) ==
    LET kept == SelectSeq(ScanLog(t, cfg), LAMBDA ev : ev.outcome = "finding")
    IN  [k \in 1..Len(kept) |-> Finding(kept[k])]

\* ------------------------------------------------------------------------
\* Ranking of the findings and the findings payload
\* ------------------------------------------------------------------------
\* the tokens of the column ids in alphabetical order
TokenOrder ==
    <<"amplitude", "close", "gcp", "market", "schumann", "spy", "vix", "zscore">>

TokenIndex(tok) == CHOOSE i \in 1..Len(TokenOrder) : TokenOrder[i] = tok

\* lexical order of two column ids, token by token; a proper prefix is first
LexLess(a, b) ==
    \E i \in 1..(Len(b)) :
        /\ \A j \in 1..(i - 1) : j <= Len(a) /\ a[j] = b[j]
        /\ \/ i = Len(a) + 1
           \/ i <= Len(a) /\ TokenIndex(a[i]) < TokenIndex(b[i])

\* f is ranked before g by the signed coefficient, then lag, then column ids
BeforeSigned(f, g) ==
    \/ f.correlation > g.correlation
    \/ /\ f.correlation = g.correlation
       /\ \/ f.lag_hours < g.lag_hours
          \/ /\ f.lag_hours = g.lag_hours
             /\ \/ LexLess(f.market_factor, g.market_factor)
                \/ /\ f.market_factor = g.market_factor
                   /\ LexLess(f.environmental_factor, g.environmental_factor)

\* f is ranked before g: larger |coefficient|, then smaller lag, then
\* column ids in lexical order
Before(f, g) ==
    \/ Abs(f.correlation) > Abs(g.correlation)
    \/ /\ Abs(f.correlation) = Abs(g.correlation)
       /\ \/ f.lag_hours < g.lag_hours
          \/ /\ f.lag_hours = g.lag_hours
             /\ \/ LexLess(f.market_factor, g.market_factor)
                \/ /\ f.market_factor = g.market_factor
                   /\ LexLess(f.environmental_factor, g.environmental_factor)

\* the findings sorted by an order: the one with i - 1 findings before it
\* takes place i
RankWith(Earlier(_, _), fs) ==
    [i \in 1..Len(fs) |->
        fs[CHOOSE k \in 1..Len(fs) :
               Cardinality({j \in 1..Len(fs) : Earlier(fs[j], fs[k])}) = i - 1]]

\* the findings sorted by the signed coefficient
RankSigned(fs) == RankWith(BeforeSigned, fs)

\* rank(findings)
Rank(fs) == RankWith(Before, fs)

NoPayload ==
    [present |-> FALSE, generated_at |-> 0, data_shape |-> <<0, 0>>,
     total_correlations_found |-> 0, threshold |-> 0, top_correlations |-> <<>>]

\* a payload that reports the documented default as the threshold
PayloadOfDefaultThreshold(t, cfg, fs, now) ==
    [present |-> TRUE,
     generated_at |-> now,
     data_shape |-> <<Len(t.grid), Cardinality(DOMAIN t.columns)>>,
     total_correlations_found |-> Len(fs),
     threshold |-> DefaultThreshold,
     top_correlations |-> Rank(fs)]

\* the content of latest_correlations.json
PayloadOf(t, cfg, fs, now) ==
    [present |-> TRUE,
     generated_at |-> now,
     data_shape |-> <<Len(t.grid), Cardinality(DOMAIN t.columns)>>,
     total_correlations_found |-> Len(fs),
     threshold |-> cfg.threshold,
     top_correlations |-> Rank(fs)]

\* ------------------------------------------------------------------------
\* Consumers of the aligned table and of the raw data
\* ------------------------------------------------------------------------
\* target = 'market_vix_close'
Target == <<"market", "vix", "close">>

RECURSIVE Ascending(_)
\* the members of a set of row numbers in ascending order
Ascending(rows) ==
    IF rows = {} THEN <<>> ELSE <<Min(rows)>> \o Ascending(rows \ {Min(rows)})

\* fillna(method='ffill').fillna(0) of one column on the kept rows
FillForwardThenZero(col, rows) ==
    [j \in 1..Len(rows) |->
        LET known == {k \in 1..j : ~IsMissing(col[rows[k]])}
        IN  IF known = {} THEN 0 ELSE col[rows[Max(known)]][1]]

\* notebook step 2: y = df[target].dropna(); X = the environmental columns
\* on the rows of y, all-missing columns dropped, gaps filled
Features(t) ==
    LET rows == Ascending({i \in 1..Len(t.grid) : ~IsMissing(t.columns[Target][i])})
        envs == {c \in DOMAIN t.columns :
                    /\ ~IsMarketColumn(c)
                    /\ \E k \in 1..Len(rows) : ~IsMissing(t.columns[c][rows[k]])}
    IN  [rows |-> rows,
         y |-> [j \in 1..Len(rows) |-> t.columns[Target][rows[j]][1]],
         X |-> [c \in envs |-> FillForwardThenZero(t.columns[c], rows)]]

NoFeatures == [rows |-> <<>>, y |-> <<>>, X |-> [c \in {} |-> <<>>]]

\* sortedData.slice(0, 100)
MaxRows == 100

Reverse(s) == [i \in 1..Len(s) |-> s[Len(s) + 1 - i]]

\* Number(row.Close || row.close || 0).toFixed(2): the shown amount in
\* hundredths, or nothing where the page shows NaN
ShownClose(field) ==
    IF field.kind = "num" /\ field.n # 0 THEN Some(field.n * 100)
    ELSE IF field.kind = "text" THEN Missing
    ELSE Some(0)

\* renderMarketData: the rows by date descending, the first MaxRows of them
MarketRows(records) ==
    LET sorted == Reverse(SortByTs(records))
        shown == SubSeq(sorted, 1, IF Len(sorted) < MaxRows THEN Len(sorted) ELSE MaxRows)
    IN  [i \in 1..Len(shown) |-> [date |-> shown[i].ts, close |-> ShownClose(shown[i].value)]]

\* ------------------------------------------------------------------------
\* The analysis card of the dashboard (coefficients in hundredths)
\* ------------------------------------------------------------------------
\* the strength band of the signed coefficient
GetStrengthLabelSigned(r) ==
    IF r >= 70 THEN [label |-> "Very Strong", class |-> "very-strong"]
    ELSE IF r >= 50 THEN [label |-> "Strong", class |-> "strong"]
    ELSE IF r >= 40 THEN [label |-> "Moderate", class |-> "moderate"]
    ELSE [label |-> "Weak", class |-> "weak"]

GetStrengthLabel(r) ==
    LET abs == Abs(r)
    IN  IF abs >= 70 THEN [label |-> "Very Strong", class |-> "very-strong"]
        ELSE IF abs >= 50 THEN [label |-> "Strong", class |-> "strong"]
        ELSE IF abs >= 40 THEN [label |-> "Moderate", class |-> "moderate"]
        ELSE [label |-> "Weak", class |-> "weak"]

\* an insight that speaks of a later move only from a lag of two hours on
GenerateInsightFromTwoHours(c) ==
    LET direction == c.correlation > 0
        lag == c.lag_hours
    IN  IF lag > 1
        THEN [headline |-> [market |-> c.market_factor, env |-> c.environmental_factor,
                            verb |-> IF direction THEN "tends to rise" ELSE "tends to fall",
                            later |-> <<lag>>],
              explanation |-> [how |-> IF direction THEN "positively predict"
                                                    ELSE "negatively predict",
                               lead |-> <<lag>>]]
        ELSE [headline |-> [market |-> c.market_factor, env |-> c.environmental_factor,
                            verb |-> IF direction THEN "move together"
                                                  ELSE "move in opposite directions",
                            later |-> <<>>],
              explanation |-> [how |-> IF direction THEN "similar" ELSE "contrary",
                               lead |-> <<>>]]

\* headline and explanation of one finding; later and lead hold the lag
\* of a predictive sentence and are empty in a sentence about the same time
GenerateInsight(c) ==
    LET direction == c.correlation > 0
        lag == c.lag_hours
    IN  IF lag > 0
        THEN [headline |-> [market |-> c.market_factor, env |-> c.environmental_factor,
                            verb |-> IF direction THEN "tends to rise" ELSE "tends to fall",
                            later |-> <<lag>>],
              explanation |-> [how |-> IF direction THEN "positively predict"
                                                    ELSE "negatively predict",
                               lead |-> <<lag>>]]
        ELSE [headline |-> [market |-> c.market_factor, env |-> c.environmental_factor,
                            verb |-> IF direction THEN "move together"
                                                  ELSE "move in opposite directions",
                            later |-> <<>>],
              explanation |-> [how |-> IF direction THEN "similar" ELSE "contrary",
                               lead |-> <<>>]]

\* one correlation card
RenderCard(c) ==
    LET insight == GenerateInsight(c)
        strength == GetStrengthLabel(c.correlation)
        direction == IF c.correlation > 0 THEN "positive" ELSE "negative"
    IN  [strengthBadge |-> strength,
         predictiveBadge |-> c.lag_hours > 0,
         direction |-> direction,
         directionArrow |-> IF c.correlation > 0 THEN "up" ELSE "down",
         barWidth |-> Abs(c.correlation),
         percent |-> c.correlation,
         headline |-> insight.headline,
         explanation |-> insight.explanation,
         sampleSize |-> c.sample_size,
         footer |-> IF c.lag_hours > 0
                    THEN <<"Lead Time", c.lag_hours>>
                    ELSE <<"Timing", "Real-time">>]

RenderCorrelations(correlations) ==
    [i \in 1..Len(correlations) |-> RenderCard(correlations[i])]

\* top_correlations.slice(0, 5)
MaxShown == 5

FirstShown(top) == SubSeq(top, 1, IF Len(top) < MaxShown THEN Len(top) ELSE MaxShown)

InitialElements ==
    [analysisStatus |-> <<"--">>, analysisCount |-> <<"--">>, analysisTime |-> <<"--">>,
     correlationsPreview |-> "none", correlationList |-> <<>>]

\* the card after GET /correlations answered with data
ShowPayload(el, data) ==
    IF ~data.present
    THEN [el EXCEPT !.analysisStatus = <<"No analysis yet">>,
                    !.analysisCount = <<"--">>,
                    !.analysisTime = <<"--">>,
                    !.correlationsPreview = "none"]
    ELSE LET shown ==
                 [el EXCEPT !.analysisStatus =
                                <<data.total_correlations_found, "correlations found">>,
                            !.analysisCount = <<"Shape">> \o data.data_shape,
                            !.analysisTime = <<"date", data.generated_at>>]
         IN  IF Len(data.top_correlations) > 0
             THEN [shown EXCEPT
                      !.correlationList =
                          RenderCorrelations(FirstShown(data.top_correlations)),
                      !.correlationsPreview = "block"]
             ELSE shown

\* ------------------------------------------------------------------------
\* Publication of a run's snapshot and the summary of a run
\* ------------------------------------------------------------------------
\* the current pointer before any run has published
NoKey == <<>>

\* the concurrent invocations of the alignment function
Runners == {"first", "second"}

\* an invocation that is not running
Idle == [stage |-> "idle", key |-> NoKey]

\* the sources accounted for one by one: results, or errors with the reason
SourceSummarySilentSkip(store) ==
    [processed |-> SelectSeq(SourceOrder, LAMBDA s : store[s].present),
     skipped |-> <<>>]

SourceSummary(store) ==
    LET failed == SelectSeq(SourceOrder, LAMBDA s : ~store[s].present)
    IN  [processed |-> SelectSeq(SourceOrder, LAMBDA s : store[s].present),
         skipped |-> [k \in 1..Len(failed) |->
                         [item |-> failed[k], error |-> "SourceUnavailable"]]]

\* the (pair, lag) triples of a scan accounted for one by one
PairSummary(log) ==
    LET done == SelectSeq(log, LAMBDA ev : ev.outcome \in {"finding", "weak"})
        failed == SelectSeq(log, LAMBDA ev : ev.outcome \in {"small", "degenerate"})
    IN  [processed |-> [k \in 1..Len(done) |->
                           <<done[k].market_factor, done[k].environmental_factor,
                             done[k].lag_hours>>],
         skipped |-> [k \in 1..Len(failed) |->
                         [item |-> <<failed[k].market_factor,
                                     failed[k].environmental_factor,
                                     failed[k].lag_hours>>,
                          error |-> IF failed[k].outcome = "small"
                                    THEN "InsufficientSamples"
                                    ELSE "DegenerateSeries"]]]

NoSummary ==
    [sources |-> [processed |-> <<>>, skipped |-> <<>>],
     pairs |-> [processed |-> <<>>, skipped |-> <<>>]]

\* ------------------------------------------------------------------------
\* Configuration of a deployment (thresholds in hundredths)
\* ------------------------------------------------------------------------
Configs ==
    {[min_points |-> 2, threshold |-> 30, min_sample_size |-> 2, lags |-> <<0, 1>>],
     [min_points |-> 3, threshold |-> 70, min_sample_size |-> 3, lags |-> <<0, 1, 2>>],
     [min_points |-> 2, threshold |-> 0, min_sample_size |-> 0, lags |-> <<0, 1>>]}

\* ------------------------------------------------------------------------
\* The dashboard: activity log, sources grid, alignment and analysis cards
\* ------------------------------------------------------------------------
\* CONFIG.maxActivityItems
maxActivityItems == 50

\* a log that drops its oldest entry as soon as it has reached the cap
LogActivityAtCap(log, now, message) ==
    LET grown == <<[time |-> now, message |-> message]>> \o log
    IN  IF Len(grown) >= maxActivityItems
        THEN SubSeq(grown, 1, Len(grown) - 1)
        ELSE grown

\* logActivity(message): unshift({time, message}), then pop() beyond the cap
LogActivity(log, now, message) ==
    LET grown == <<[time |-> now, message |-> message]>> \o log
    IN  IF Len(grown) > maxActivityItems
        THEN SubSeq(grown, 1, Len(grown) - 1)
        ELSE grown

\* a Trigger button as renderSources writes it into the grid
FreshButton == [disabled |-> FALSE, label |-> "Trigger"]

\* the grid before the first rendering, or without a source to show
NoButtons == [s \in {} |-> FreshButton]

\* renderSources(sources): the grid is replaced by a new button per source
RenderSources(srcs) == [s \in srcs |-> FreshButton]

\* the texts of the header and of the alignment card as the page loads
InitialTexts ==
    [environment |-> "--", lastUpdated |-> <<>>,
     alignmentFile |-> <<"--">>, alignmentTime |-> <<"--">>, alignmentSize |-> <<"--">>]

\* a job card: the 'active' class, the trigger button, the request of the
\* trigger, the timer that enables the button again, the polls that timer
\* precedes and the polls that are due
IdleCard ==
    [active |-> FALSE, disabled |-> FALSE, inflight |-> FALSE,
     reenable |-> FALSE, held |-> 0, polls |-> 0]

Jobs == {"alignment", "analysis"}

\* setTimeout(fetch...Status, ...) three times after a trigger
PollsPerTrigger == 3

\* ------------------------------------------------------------------------
\* State
\* ------------------------------------------------------------------------
VARIABLES
    raw,            \* store: source -> latest ingested record set, or NoRecord
    config,         \* configuration of the deployment
    table,          \* MasterTable of the last alignment run, NoTable if none
    alignStatus,    \* "idle", "success" or "InsufficientOverlap"
    scanned,        \* the triples the last scan evaluated, in scan order
    findings,       \* the findings the last scan retained
    analysisStatus, \* "idle" or "success"
    features,       \* X and y of the notebook, NoFeatures before step 2
    marketView,     \* rows of the market table of the data modal
    payload,        \* latest_correlations.json, NoPayload before the first scan
    snapshots,      \* master_aligned_{timestamp}.json: timestamp -> table
    clock,          \* the time of day in seconds
    elements,       \* the analysis card of the dashboard
    current,        \* the current pointer: <<>> or <<key>> of the published snapshot
    runs,           \* alignment runs in flight, by invocation
    summary,        \* processed and skipped sources and pairs of the last runs
    activityLog,    \* the activity log of the dashboard, newest entry first
    logged,         \* every entry logActivity was called with, in call order
    sourcesGrid,    \* the Trigger buttons of the sources grid, by source
    orphaned,       \* unresolved POST /ingest requests of buttons no longer in the grid
    texts,          \* texts of the header and of the alignment card
    cards           \* the alignment card and the analysis card

vars ==
    <<raw, config, table, alignStatus, scanned, findings, analysisStatus,
      features, marketView, payload, snapshots, clock, elements,
      current, runs, summary,
      activityLog, logged, sourcesGrid, orphaned, texts, cards>>

\* nothing published, no run in flight, no summary
InitPublished ==
    /\ current = NoKey
    /\ runs = [r \in Runners |-> Idle]
    /\ summary = NoSummary

\* the page as it is loaded: nothing logged, no button rendered, no request
\* under way
InitFrontend ==
    /\ activityLog = <<>>
    /\ logged = <<>>
    /\ sourcesGrid = NoButtons
    /\ orphaned = [s \in Sources |-> 0]
    /\ texts = InitialTexts
    /\ cards = [j \in Jobs |-> IdleCard]

Init ==
    /\ raw \in Datasets
    /\ config \in Configs
    /\ table = NoTable
    /\ alignStatus = "idle"
    /\ scanned = <<>>
    /\ findings = <<>>
    /\ analysisStatus = "idle"
    /\ features = NoFeatures
    /\ marketView = <<>>
    /\ payload = NoPayload
    /\ snapshots = [k \in {} |-> NoTable]
    /\ clock = 0
    /\ elements = InitialElements
    /\ InitPublished
    /\ InitFrontend

\* POST /process: one alignment run over the latest raw record sets, from
\* loading to publication without another run in between
Align ==
    /\ IF InsufficientOverlap(GridOf(raw), config.min_points)
       THEN /\ alignStatus' = "InsufficientOverlap"
            /\ table' = NoTable
            /\ snapshots' = snapshots
            /\ current' = current
            /\ summary' = summary
       ELSE /\ alignStatus' = "success"
            /\ table' = AlignedTable(raw)
            /\ snapshots' = [k \in DOMAIN snapshots \cup {clock} |->
                                IF k = clock THEN AlignedTable(raw) ELSE snapshots[k]]
            /\ current' = <<clock>>
            /\ summary' = [summary EXCEPT !.sources = SourceSummary(raw)]
    /\ UNCHANGED <<raw, config, scanned, findings, analysisStatus, features, marketView,
                   payload, clock, elements, runs,
                   activityLog, logged, sourcesGrid, orphaned, texts, cards>>

\* an analysis that adds its findings to those an earlier run left behind
AnalyzeAccumulating ==
    LET log == ScanLog(table, config)
        fs  == Scan(table, config)
    IN  /\ scanned' = scanned \o log
        /\ findings' = findings \o fs
        /\ analysisStatus' = "success"
        /\ payload' = PayloadOf(table, config, findings \o fs, clock)
        /\ summary' = [summary EXCEPT !.pairs = PairSummary(log)]
        /\ UNCHANGED <<raw, config, table, alignStatus, features, marketView, snapshots,
                       clock, elements, current, runs,
                   activityLog, logged, sourcesGrid, orphaned, texts, cards>>

\* an analysis that reports an error for a table without rows or without
\* one of the two classes of columns
AnalyzeFailingOnEmpty ==
    LET log == ScanLog(table, config)
        fs  == Scan(table, config)
    IN  /\ scanned' = log
        /\ findings' = fs
        /\ analysisStatus' =
              IF \/ Len(table.grid) = 0
                 \/ Len(MarketColumns(table)) = 0
                 \/ Len(EnvColumns(table)) = 0
              THEN "error" ELSE "success"
        /\ payload' = PayloadOf(table, config, fs, clock)
        /\ summary' = [summary EXCEPT !.pairs = PairSummary(log)]
        /\ UNCHANGED <<raw, config, table, alignStatus, features, marketView, snapshots,
                       clock, elements, current, runs,
                   activityLog, logged, sourcesGrid, orphaned, texts, cards>>

\* POST /analyze: one scan of the latest aligned table
Analyze ==
    LET log == ScanLog(table, config)
        fs  == Scan(table, config)
    IN  /\ scanned' = log
        /\ findings' = fs
        /\ analysisStatus' = "success"
        /\ payload' = PayloadOf(table, config, fs, clock)
        /\ summary' = [summary EXCEPT !.pairs = PairSummary(log)]
        /\ UNCHANGED <<raw, config, table, alignStatus, features, marketView, snapshots,
                       clock, elements, current, runs,
                   activityLog, logged, sourcesGrid, orphaned, texts, cards>>

\* notebook steps 1 and 2 on the latest aligned table
PrepareFeatures ==
    /\ Target \in DOMAIN table.columns
    /\ features' = Features(table)
    /\ UNCHANGED <<raw, config, table, alignStatus, scanned, findings, analysisStatus,
                   marketView, payload, snapshots, clock, elements,
                   current, runs, summary,
                   activityLog, logged, sourcesGrid, orphaned, texts, cards>>

\* the data modal of the market source
RenderMarketData ==
    /\ raw["market"].present
    /\ marketView' = MarketRows(raw["market"].records)
    /\ UNCHANGED <<raw, config, table, alignStatus, scanned, findings, analysisStatus,
                   features, payload, snapshots, clock, elements,
                   current, runs, summary,
                   activityLog, logged, sourcesGrid, orphaned, texts, cards>>

\* fetchCorrelationStatus: GET /correlations answers, is not found, or fails
FetchCorrelationStatus ==
    /\ \E outcome \in {"ok", "404", "error"} :
          elements' =
              IF outcome = "ok" THEN ShowPayload(elements, payload)
              ELSE IF outcome = "404"
              THEN [elements EXCEPT !.analysisStatus = <<"No analysis yet">>,
                                    !.analysisCount = <<"--">>,
                                    !.analysisTime = <<"--">>]
              ELSE [elements EXCEPT !.analysisStatus = <<"Check failed">>]
    /\ UNCHANGED <<raw, config, table, alignStatus, scanned, findings, analysisStatus,
                   features, marketView, payload, snapshots, clock,
                   current, runs, summary,
                   activityLog, logged, sourcesGrid, orphaned, texts, cards>>

\* POST /process is accepted: an invocation of the alignment function starts,
\* here with the pointer moved before anything is saved
StartRunPublishing(r) ==
    /\ runs[r].stage = "idle"
    /\ runs' = [runs EXCEPT ![r] = [stage |-> "started", key |-> NoKey]]
    /\ current' = <<clock>>
    /\ UNCHANGED <<raw, config, table, alignStatus, scanned, findings, analysisStatus,
                   features, marketView, payload, snapshots, clock, elements, summary,
                   activityLog, logged, sourcesGrid, orphaned, texts, cards>>

\* POST /process is accepted: an invocation of the alignment function starts
StartRun(r) ==
    /\ runs[r].stage = "idle"
    /\ runs' = [runs EXCEPT ![r] = [stage |-> "started", key |-> NoKey]]
    /\ UNCHANGED <<raw, config, table, alignStatus, scanned, findings, analysisStatus,
                   features, marketView, payload, snapshots, clock, elements,
                   current, summary,
                   activityLog, logged, sourcesGrid, orphaned, texts, cards>>

\* the run aligns the latest record sets and saves
\* master_aligned_{timestamp}.json
WriteSnapshot(r) ==
    /\ runs[r].stage = "started"
    /\ ~InsufficientOverlap(GridOf(raw), config.min_points)
    /\ table' = AlignedTable(raw)
    /\ snapshots' = [k \in DOMAIN snapshots \cup {clock} |->
                        IF k = clock THEN AlignedTable(raw) ELSE snapshots[k]]
    /\ summary' = [summary EXCEPT !.sources = SourceSummary(raw)]
    /\ runs' = [runs EXCEPT ![r] = [stage |-> "written", key |-> <<clock>>]]
    /\ UNCHANGED <<raw, config, alignStatus, scanned, findings, analysisStatus,
                   features, marketView, payload, clock, elements, current,
                   activityLog, logged, sourcesGrid, orphaned, texts, cards>>

\* the run moves the current pointer to the snapshot it has saved, and ends
PublishSnapshot(r) ==
    /\ runs[r].stage = "written"
    /\ current' = runs[r].key
    /\ alignStatus' = "success"
    /\ runs' = [runs EXCEPT ![r] = Idle]
    /\ UNCHANGED <<raw, config, table, scanned, findings, analysisStatus, features,
                   marketView, payload, snapshots, clock, elements, summary,
                   activityLog, logged, sourcesGrid, orphaned, texts, cards>>

\* the run fails before or after it has saved its file: it exceeds its
\* allotted time, or it finds the common range too short and saves nothing
FailRun(r) ==
    /\ runs[r].stage \in {"started", "written"}
    /\ alignStatus' =
          IF /\ runs[r].stage = "started"
             /\ InsufficientOverlap(GridOf(raw), config.min_points)
          THEN "InsufficientOverlap" ELSE "Timeout"
    /\ table' = NoTable
    /\ runs' = [runs EXCEPT ![r] = Idle]
    /\ UNCHANGED <<raw, config, scanned, findings, analysisStatus, features, marketView,
                   payload, snapshots, clock, elements, current, summary,
                   activityLog, logged, sourcesGrid, orphaned, texts, cards>>

\* a call of logActivity(message) at the present time
Logs(message) ==
    /\ activityLog' = LogActivity(activityLog, clock, message)
    /\ logged' = Append(logged, [time |-> clock, message |-> message])

\* the unresolved POST /ingest/{source} requests started from Trigger buttons
Pending(s) ==
    orphaned[s]
    + (IF s \in DOMAIN sourcesGrid /\ sourcesGrid[s].label = "spinner" THEN 1 ELSE 0)

\* fetchStatus, GET /status answers with the sources: the grid is rendered
\* anew, the buttons it held are no longer in the page and their click
\* handlers go on with them
FetchStatusOk(srcs) ==
    /\ sourcesGrid' = RenderSources(srcs)
    /\ orphaned' = [s \in Sources |-> Pending(s)]
    /\ texts' = [texts EXCEPT !.environment = "dev", !.lastUpdated = <<clock>>]
    /\ Logs(<<"Status refresh completed">>)
    /\ UNCHANGED <<raw, config, table, alignStatus, scanned, findings, analysisStatus,
                   features, marketView, payload, snapshots, clock,
                   current, runs, summary, elements, cards>>

\* fetchStatus, GET /status fails
FetchStatusFailed ==
    /\ Logs(<<"Status fetch failed">>)
    /\ UNCHANGED <<raw, config, table, alignStatus, scanned, findings, analysisStatus,
                   features, marketView, payload, snapshots, clock,
                   current, runs, summary, elements, sourcesGrid, orphaned, texts, cards>>

\* a click on the Trigger button of a source: the button is disabled and
\* shows the spinner, POST /ingest/{source} is sent
ClickTrigger(s) ==
    /\ s \in DOMAIN sourcesGrid
    /\ ~sourcesGrid[s].disabled
    /\ sourcesGrid' = [sourcesGrid EXCEPT ![s] = [disabled |-> TRUE, label |-> "spinner"]]
    /\ UNCHANGED <<raw, config, table, alignStatus, scanned, findings, analysisStatus,
                   features, marketView, payload, snapshots, clock,
                   current, runs, summary, elements, activityLog, logged, orphaned, texts, cards>>

\* triggerIngestion resolves or rejects for a button of the grid
IngestionResolved(s, ok) ==
    /\ s \in DOMAIN sourcesGrid
    /\ sourcesGrid[s].label = "spinner"
    /\ sourcesGrid' = [sourcesGrid EXCEPT ![s].label = IF ok THEN "Triggered" ELSE "Failed"]
    /\ Logs(IF ok THEN <<"Triggered ingestion for", s>> ELSE <<"Failed to trigger", s>>)
    /\ UNCHANGED <<raw, config, table, alignStatus, scanned, findings, analysisStatus,
                   features, marketView, payload, snapshots, clock,
                   current, runs, summary, elements, orphaned, texts, cards>>

\* triggerIngestion resolves or rejects for a button that is no longer in
\* the grid: what the handler writes to the button is not seen
DetachedIngestionResolved(s, ok) ==
    /\ orphaned[s] > 0
    /\ orphaned' = [orphaned EXCEPT ![s] = @ - 1]
    /\ Logs(IF ok THEN <<"Triggered ingestion for", s>> ELSE <<"Failed to trigger", s>>)
    /\ UNCHANGED <<raw, config, table, alignStatus, scanned, findings, analysisStatus,
                   features, marketView, payload, snapshots, clock,
                   current, runs, summary, elements, sourcesGrid, texts, cards>>

\* two seconds after the request ended: the label is restored and the button
\* enabled
RestoreButton(s) ==
    /\ s \in DOMAIN sourcesGrid
    /\ sourcesGrid[s].label \in {"Triggered", "Failed"}
    /\ sourcesGrid' = [sourcesGrid EXCEPT ![s] = FreshButton]
    /\ UNCHANGED <<raw, config, table, alignStatus, scanned, findings, analysisStatus,
                   features, marketView, payload, snapshots, clock,
                   current, runs, summary, elements, activityLog, logged, orphaned, texts, cards>>

\* triggerAlignment, triggerAnalysis up to the request: the button is
\* disabled, the card gets the class 'active' and shows 'Processing...'
ClickJob(j) ==
    /\ ~cards[j].disabled
    /\ cards' = [cards EXCEPT ![j].disabled = TRUE, ![j].active = TRUE, ![j].inflight = TRUE]
    /\ IF j = "alignment"
       THEN /\ texts' = [texts EXCEPT !.alignmentFile = <<"Processing...">>]
            /\ elements' = elements
       ELSE /\ elements' = [elements EXCEPT !.analysisStatus = <<"Processing...">>]
            /\ texts' = texts
    /\ UNCHANGED <<raw, config, table, alignStatus, scanned, findings, analysisStatus,
                   features, marketView, payload, snapshots, clock,
                   current, runs, summary, activityLog, logged, sourcesGrid, orphaned>>

\* POST /process or POST /analyze is accepted: the start is logged, three
\* polls are scheduled and, before them, the timer that enables the button
JobAccepted(j) ==
    /\ cards[j].inflight
    /\ cards' = [cards EXCEPT ![j].inflight = FALSE, ![j].reenable = TRUE,
                              ![j].held = PollsPerTrigger]
    /\ Logs(IF j = "alignment" THEN <<"Alignment job started">>
                               ELSE <<"Correlation analysis started">>)
    /\ UNCHANGED <<raw, config, table, alignStatus, scanned, findings, analysisStatus,
                   features, marketView, payload, snapshots, clock,
                   current, runs, summary, elements, sourcesGrid, orphaned, texts>>

\* POST /process or POST /analyze fails: the failure is logged, 'active' is
\* removed and the timer that enables the button is set
JobRefused(j) ==
    /\ cards[j].inflight
    /\ cards' = [cards EXCEPT ![j].inflight = FALSE, ![j].reenable = TRUE,
                              ![j].active = FALSE]
    /\ Logs(IF j = "alignment" THEN <<"Failed to trigger alignment">>
                               ELSE <<"Failed to trigger analysis">>)
    /\ UNCHANGED <<raw, config, table, alignStatus, scanned, findings, analysisStatus,
                   features, marketView, payload, snapshots, clock,
                   current, runs, summary, elements, sourcesGrid, orphaned, texts>>

\* one second after the trigger ended: the button is enabled; the polls
\* scheduled with this timer come after it
EnableJob(j) ==
    /\ cards[j].reenable
    /\ cards' = [cards EXCEPT ![j].reenable = FALSE, ![j].disabled = FALSE,
                              ![j].polls = @ + cards[j].held, ![j].held = 0]
    /\ UNCHANGED <<raw, config, table, alignStatus, scanned, findings, analysisStatus,
                   features, marketView, payload, snapshots, clock,
                   current, runs, summary, elements, activityLog, logged, sourcesGrid, orphaned, texts>>

\* the answers GET /processed can give: the latest file if one is published,
\* 404 if none, or no answer
AlignmentOutcomes ==
    {"error"} \cup (IF current = NoKey THEN {"404"} ELSE {"ok"})

\* the texts of the alignment card after fetchAlignmentStatus
AlignmentTexts(outcome) ==
    IF outcome = "ok"
    THEN [texts EXCEPT !.alignmentFile = current,
                       !.alignmentTime = <<"date", current[1]>>,
                       !.alignmentSize = <<Len(snapshots[current[1]].grid), "KB">>]
    ELSE IF outcome = "404"
    THEN [texts EXCEPT !.alignmentFile = <<"No aligned data found">>,
                       !.alignmentTime = <<"--">>,
                       !.alignmentSize = <<"--">>]
    ELSE [texts EXCEPT !.alignmentFile = <<"Check failed">>]

\* fetchAlignmentStatus called by a refresh
FetchAlignmentStatus ==
    /\ \E outcome \in AlignmentOutcomes :
          /\ texts' = AlignmentTexts(outcome)
          /\ cards' = IF outcome = "ok"
                      THEN [cards EXCEPT !["alignment"].active = FALSE]
                      ELSE cards
    /\ UNCHANGED <<raw, config, table, alignStatus, scanned, findings, analysisStatus,
                   features, marketView, payload, snapshots, clock,
                   current, runs, summary, elements, activityLog, logged, sourcesGrid, orphaned>>

\* fetchAlignmentStatus called by one of the polls of a trigger
PollAlignmentStatus ==
    /\ cards["alignment"].polls > 0
    /\ \E outcome \in AlignmentOutcomes :
          /\ texts' = AlignmentTexts(outcome)
          /\ cards' = [cards EXCEPT
                          !["alignment"].polls = @ - 1,
                          !["alignment"].active = IF outcome = "ok" THEN FALSE ELSE @]
    /\ UNCHANGED <<raw, config, table, alignStatus, scanned, findings, analysisStatus,
                   features, marketView, payload, snapshots, clock,
                   current, runs, summary, elements, activityLog, logged, sourcesGrid, orphaned>>

\* fetchCorrelationStatus called by one of the polls of a trigger
PollCorrelationStatus ==
    /\ cards["analysis"].polls > 0
    /\ cards' = [cards EXCEPT !["analysis"].polls = @ - 1]
    /\ \E outcome \in {"ok", "404", "error"} :
          elements' =
              IF outcome = "ok" THEN ShowPayload(elements, payload)
              ELSE IF outcome = "404"
              THEN [elements EXCEPT !.analysisStatus = <<"No analysis yet">>,
                                    !.analysisCount = <<"--">>,
                                    !.analysisTime = <<"--">>]
              ELSE [elements EXCEPT !.analysisStatus = <<"Check failed">>]
    /\ UNCHANGED <<raw, config, table, alignStatus, scanned, findings, analysisStatus,
                   features, marketView, payload, snapshots, clock,
                   current, runs, summary, activityLog, logged, sourcesGrid, orphaned, texts>>

Next ==
    \/ Align
    \/ Analyze

Spec == Init /\ [][Next]_vars

NextConsumers ==
    \/ Align
    \/ PrepareFeatures
    \/ RenderMarketData

\* alignment runs followed by the notebook and the data modal
SpecConsumers == Init /\ [][NextConsumers]_vars

\* ------------------------------------------------------------------------
\* The scanner on any latest_aligned.json: tables of several market and
\* environmental columns, and tables without rows or without one class
\* ------------------------------------------------------------------------
VixClose == <<"market", "vix", "close">>
SpyClose == <<"market", "spy", "close">>
SchumannAmplitude == <<"schumann", "amplitude">>
GcpZscore == <<"gcp", "zscore">>

\* the columns of the file in the order of its records
FileOrder == <<VixClose, SpyClose, SchumannAmplitude, GcpZscore>>

MarketPatterns == [1..ScanLen -> {Some(v * Scale) : v \in Values}]

EnvPatterns == [1..ScanLen -> {Missing} \cup {Some(v * Scale) : v \in Values}]

\* columns of the further series: never present, or alternating
ExtraPatterns ==
    {[i \in 1..ScanLen |-> Missing],
     [i \in 1..ScanLen |-> Some((i % 2) * Scale)]}

\* the table of a file with the given rows and columns
TableOf(grid, cols) ==
    [grid |-> grid,
     order |-> SelectSeq(FileOrder, LAMBDA c : c \in DOMAIN cols),
     columns |-> cols,
     source |-> [c \in DOMAIN cols |-> c[1]]]

HourlyRows(n) == [i \in 1..n |-> (i - 1) * HOUR]

ScanTables ==
    {TableOf(HourlyRows(ScanLen),
             [c \in {VixClose, SchumannAmplitude} \cup DOMAIN x |->
                 IF c = VixClose THEN m ELSE IF c = SchumannAmplitude THEN e ELSE x[c]]) :
        m \in MarketPatterns, e \in EnvPatterns,
        x \in UNION {[ids -> ExtraPatterns] : ids \in {{}, {SpyClose, GcpZscore}}}}
    \cup {TableOf(HourlyRows(ScanLen), [c \in {VixClose} |-> m]) : m \in MarketPatterns}
    \cup {TableOf(HourlyRows(ScanLen), [c \in {SchumannAmplitude} |-> e]) : e \in EnvPatterns}
    \cup {TableOf(<<>>, [c \in {VixClose, SchumannAmplitude} |-> <<>>]), NoTable}

InitScan ==
    /\ raw = [s \in Sources |-> NoRecord]
    /\ config \in Configs
    /\ table \in ScanTables
    /\ alignStatus = IF table = NoTable THEN "idle" ELSE "success"
    /\ scanned = <<>>
    /\ findings = <<>>
    /\ analysisStatus = "idle"
    /\ features = NoFeatures
    /\ marketView = <<>>
    /\ payload = NoPayload
    /\ snapshots = [k \in {} |-> NoTable]
    /\ clock = 0
    /\ elements = InitialElements
    /\ InitPublished
    /\ InitFrontend

NextScan ==
    \/ Analyze

\* POST /analyze, any number of times, on one aligned table
SpecScan == InitScan /\ [][NextScan]_vars

\* ------------------------------------------------------------------------
\* Runs that share the processed bucket: ingestion brings new raw data,
\* time passes, alignment and analysis runs follow one another
\* ------------------------------------------------------------------------
HourlySeries(f) == [i \in 1..MaxHours |-> [ts |-> (i - 1) * HOUR, value |-> Num(f[i])]]

\* three market record sets over the same hours and one Schumann record set
RunDatasets ==
    {[market |-> Stored(HourlySeries(m)),
      schumann |-> Stored(HourlySeries([i \in 1..MaxHours |-> i % 2]))] :
        m \in {[i \in 1..MaxHours |-> 0],
               [i \in 1..MaxHours |-> i % 2],
               [i \in 1..MaxHours |-> (i + 1) % 2]}}

\* POST /ingest/{source}: a new record set of the source becomes the latest
Ingest ==
    /\ \E s \in Sources, d \in RunDatasets :
          /\ d[s] # raw[s]
          /\ raw' = [raw EXCEPT ![s] = d[s]]
    /\ UNCHANGED <<config, table, alignStatus, scanned, findings, analysisStatus,
                   features, marketView, payload, snapshots, clock, elements,
                   current, runs, summary,
                   activityLog, logged, sourcesGrid, orphaned, texts, cards>>

\* a second passes
Tick ==
    /\ clock < MaxClock
    /\ clock' = clock + 1
    /\ UNCHANGED <<raw, config, table, alignStatus, scanned, findings, analysisStatus,
                   features, marketView, payload, snapshots, elements,
                   current, runs, summary,
                   activityLog, logged, sourcesGrid, orphaned, texts, cards>>

InitRuns ==
    /\ raw \in RunDatasets
    /\ config \in {cfg \in Configs : cfg.threshold = DefaultThreshold}
    /\ table = NoTable
    /\ alignStatus = "idle"
    /\ scanned = <<>>
    /\ findings = <<>>
    /\ analysisStatus = "idle"
    /\ features = NoFeatures
    /\ marketView = <<>>
    /\ payload = NoPayload
    /\ snapshots = [k \in {} |-> NoTable]
    /\ clock = 0
    /\ elements = InitialElements
    /\ InitPublished
    /\ InitFrontend

NextRuns ==
    \/ Ingest
    \/ Tick
    \/ Align
    \/ Analyze

SpecRuns == InitRuns /\ [][NextRuns]_vars

\* ------------------------------------------------------------------------
\* Alignment runs step by step: two invocations load, save and publish while
\* ingestion and time go on
\* ------------------------------------------------------------------------
InitPublish ==
    /\ raw \in RunDatasets
    /\ config \in {cfg \in Configs : cfg.threshold = DefaultThreshold}
    /\ table = NoTable
    /\ alignStatus = "idle"
    /\ scanned = <<>>
    /\ findings = <<>>
    /\ analysisStatus = "idle"
    /\ features = NoFeatures
    /\ marketView = <<>>
    /\ payload = NoPayload
    /\ snapshots = [k \in {} |-> NoTable]
    /\ clock = 0
    /\ elements = InitialElements
    /\ InitPublished
    /\ InitFrontend

NextPublish ==
    \/ Ingest
    \/ Tick
    \/ \E r \in Runners : StartRun(r)
    \/ \E r \in Runners : WriteSnapshot(r)
    \/ \E r \in Runners : PublishSnapshot(r)
    \/ \E r \in Runners : FailRun(r)

SpecPublish == InitPublish /\ [][NextPublish]_vars

\* ------------------------------------------------------------------------
\* The dashboard on any findings payload of a deployment with threshold 0
\* ------------------------------------------------------------------------
AllLags == UNION {Range(cfg.lags) : cfg \in Configs}

DashFinding(c, lag) ==
    [market_factor |-> VixClose,
     environmental_factor |-> SchumannAmplitude,
     correlation |-> c,
     lag_hours |-> lag,
     sample_size |-> 15,
     type |-> IF lag = 0 THEN "instant" ELSE "lagged"]

DashPayload(top) ==
    [present |-> TRUE, generated_at |-> 0, data_shape |-> <<721, 45>>,
     total_correlations_found |-> Len(top), threshold |-> 0, top_correlations |-> top]

\* one finding of any coefficient and lag, no finding, more findings than
\* the card shows, or no payload yet
DashPayloads ==
    {DashPayload(<<DashFinding(c, lag)>>) : c \in (-100)..100, lag \in AllLags}
    \cup {DashPayload(<<>>),
          DashPayload([i \in 1..(MaxShown + 1) |-> DashFinding(100 - 10 * i, i % 2)]),
          NoPayload}

InitDashboard ==
    /\ raw = [s \in Sources |-> NoRecord]
    /\ config \in {cfg \in Configs : cfg.threshold = 0}
    /\ table = NoTable
    /\ alignStatus = "idle"
    /\ scanned = <<>>
    /\ findings = <<>>
    /\ analysisStatus = "idle"
    /\ features = NoFeatures
    /\ marketView = <<>>
    /\ payload \in DashPayloads
    /\ snapshots = [k \in {} |-> NoTable]
    /\ clock = 0
    /\ elements = InitialElements
    /\ InitPublished
    /\ InitFrontend

NextDashboard ==
    \/ FetchCorrelationStatus

\* the automatic and manual refreshes of the analysis card
SpecDashboard == InitDashboard /\ [][NextDashboard]_vars

\* ------------------------------------------------------------------------
\* The sources grid: clicks on Trigger buttons, their requests and timers,
\* and the refreshes of the status that render the grid
\* ------------------------------------------------------------------------
InitSources ==
    /\ raw = [s \in Sources |-> NoRecord]
    /\ config \in {cfg \in Configs : cfg.threshold = DefaultThreshold}
    /\ table = NoTable
    /\ alignStatus = "idle"
    /\ scanned = <<>>
    /\ findings = <<>>
    /\ analysisStatus = "idle"
    /\ features = NoFeatures
    /\ marketView = <<>>
    /\ payload = NoPayload
    /\ snapshots = [k \in {} |-> NoTable]
    /\ clock = 0
    /\ elements = InitialElements
    /\ InitPublished
    /\ InitFrontend

\* the refreshes and clicks of the session end once the log has MaxLogged
\* entries
SourcesBudget == Len(logged) < MaxLogged

NextSources ==
    \/ SourcesBudget /\ \E srcs \in {{}, Sources} : FetchStatusOk(srcs)
    \/ SourcesBudget /\ FetchStatusFailed
    \/ SourcesBudget /\ \E s \in Sources : ClickTrigger(s)
    \/ \E s \in Sources, ok \in BOOLEAN : IngestionResolved(s, ok)
    \/ \E s \in Sources, ok \in BOOLEAN : DetachedIngestionResolved(s, ok)
    \/ \E s \in Sources : RestoreButton(s)

SpecSources == InitSources /\ [][NextSources]_vars

\* ------------------------------------------------------------------------
\* The alignment and analysis cards: triggers, their polls and timers, the
\* refreshes of the alignment card, and alignment runs of the backend
\* ------------------------------------------------------------------------
InitCards ==
    /\ raw \in RunDatasets
    /\ config \in {cfg \in Configs : cfg.threshold = DefaultThreshold}
    /\ table = NoTable
    /\ alignStatus = "idle"
    /\ scanned = <<>>
    /\ findings = <<>>
    /\ analysisStatus = "idle"
    /\ features = NoFeatures
    /\ marketView = <<>>
    /\ payload = NoPayload
    /\ snapshots = [k \in {} |-> NoTable]
    /\ clock = 0
    /\ elements = InitialElements
    /\ InitPublished
    /\ InitFrontend

\* the triggers of the session end once the log has MaxLogged entries
CardsBudget == Len(logged) < MaxLogged

NextCards ==
    \/ Align
    \/ CardsBudget /\ \E j \in Jobs : ClickJob(j)
    \/ \E j \in Jobs : JobAccepted(j)
    \/ \E j \in Jobs : JobRefused(j)
    \/ \E j \in Jobs : EnableJob(j)
    \/ FetchAlignmentStatus
    \/ PollAlignmentStatus
    \/ PollCorrelationStatus

SpecCards == InitCards /\ [][NextCards]_vars

\* ------------------------------------------------------------------------
\* A long session: the status is refreshed again and again, the API failing
\* at first and answering from some refresh on, while time passes
\* ------------------------------------------------------------------------
InitActivity ==
    /\ raw = [s \in Sources |-> NoRecord]
    /\ config \in {cfg \in Configs : cfg.threshold = DefaultThreshold}
    /\ table = NoTable
    /\ alignStatus = "idle"
    /\ scanned = <<>>
    /\ findings = <<>>
    /\ analysisStatus = "idle"
    /\ features = NoFeatures
    /\ marketView = <<>>
    /\ payload = NoPayload
    /\ snapshots = [k \in {} |-> NoTable]
    /\ clock = MaxClock - 1
    /\ elements = InitialElements
    /\ InitPublished
    /\ InitFrontend

NextActivity ==
    \/ Tick
    \/ Len(logged) < MaxCalls /\ FetchStatusOk(Sources)
    \/ /\ Len(logged) < MaxCalls
       /\ IF activityLog = <<>> THEN TRUE
          ELSE activityLog[1].message = <<"Status fetch failed">>
       /\ FetchStatusFailed

SpecActivity == InitActivity /\ [][NextActivity]_vars

\* ------------------------------------------------------------------------
\* Properties of the aligner
\* ------------------------------------------------------------------------
\* the loaded series of the sources that have samples
RangedSeries ==
    {LoadSeries(raw[s].records) : s \in {x \in Sources : raw[x].present}} \ {<<>>}

\* max over sources of the first timestamp, min over sources of the last
RangeStart ==
    LET rs == RangedSeries
    IN  CHOOSE t \in {x[1].ts : x \in rs} : \A x \in rs : x[1].ts <= t

RangeEnd ==
    LET rs == RangedSeries
    IN  CHOOSE t \in {x[Len(x)].ts : x \in rs} : \A x \in rs : t <= x[Len(x)].ts

\* the loaded series behind a column of the table
SeriesOf(c) == LoadSeries(raw[table.source[c]].records)

Present(col) == {i \in 1..Len(col) : ~IsMissing(col[i])}

\* C1: every column of the table of an alignment run has exactly one value
\* per grid position, so no two columns differ in length.
ColumnsMatchGrid ==
    \A c \in DOMAIN table.columns : Len(table.columns[c]) = Len(table.grid)

\* a table of two columns in which the hourly means leave gaps
ColumnsMatchGridWitness ==
    /\ alignStatus = "success"
    /\ Cardinality(DOMAIN table.columns) = 2
    /\ Len(table.grid) >= 3
    /\ \E c \in DOMAIN table.columns :
          /\ FillPolicy(table.source[c]) = "MeanAggregate"
          /\ Present(table.columns[c]) # {}
          /\ Present(table.columns[c]) # 1..Len(table.grid)

\* ranges [2024-01-01T00, 2024-01-05T00] and [2024-01-03T00, 2024-01-10T00],
\* in hours since 2024-01-01T00
ScenarioSeries ==
    {<<[ts |-> 0, value |-> 1], [ts |-> 96 * HOUR, value |-> 1]>>,
     <<[ts |-> 48 * HOUR, value |-> 1], [ts |-> 216 * HOUR, value |-> 1]>>}

ScenarioGrid == MasterIndex(CommonStart(ScenarioSeries), CommonEnd(ScenarioSeries))

ScenarioHolds == ScenarioGrid = [i \in 1..49 |-> (48 + i - 1) * HOUR]

RangePoints ==
    IF RangedSeries = {} THEN 0
    ELSE LET start == RangeStart
             end   == RangeEnd
         IN  IF start > end THEN 0 ELSE (end - start) \div HOUR + 1

\* C3: an alignment run fails with InsufficientOverlap, and leaves no table,
\* exactly when the intersected range is empty or has fewer hourly points
\* than the configured minimum; a table that is produced has start <= end
\* and at least the minimum number of points.
FailsExactlyOnInsufficientOverlap ==
    /\ alignStatus = "InsufficientOverlap" =>
          /\ RangePoints < config.min_points
          /\ table = NoTable
    /\ alignStatus = "success" =>
          /\ RangePoints >= config.min_points
          /\ table # NoTable
          /\ Len(table.grid) >= config.min_points
          /\ table.grid[1] <= table.grid[Len(table.grid)]

\* a run refused although the sources overlap in one hour less than required
FailsExactlyOnInsufficientOverlapWitness ==
    /\ alignStatus = "InsufficientOverlap"
    /\ table = NoTable
    /\ RangedSeries # {}
    /\ RangeStart <= RangeEnd
    /\ RangePoints = config.min_points - 1

\* C4: under ForwardFill the value at a grid hour is that of the latest raw
\* sample at or before the hour, and it is missing exactly when no sample
\* lies at or before the hour; no position takes a value from a later sample.
ForwardFillTakesLatestSample ==
    \A c \in DOMAIN table.columns :
        FillPolicy(table.source[c]) = "ForwardFill" =>
            \A i \in 1..Len(table.grid) :
                LET s == SeriesOf(c)
                    past == {k \in 1..Len(s) : s[k].ts <= table.grid[i]}
                    cell == table.columns[c][i]
                IN  /\ IsMissing(cell) <=> past = {}
                    /\ past # {} =>
                          \E k \in past :
                              /\ \A j \in past : s[j].ts <= s[k].ts
                              /\ cell = Some(s[k].value * Scale)

\* a grid hour that carries an earlier sample forward although a later
\* sample with another value exists
ForwardFillTakesLatestSampleWitness ==
    /\ alignStatus = "success"
    /\ \E c \in DOMAIN table.columns :
          /\ FillPolicy(table.source[c]) = "ForwardFill"
          /\ \E i \in 1..Len(table.grid) :
                \E k \in 1..(Len(SeriesOf(c)) - 1) :
                    /\ SeriesOf(c)[k].ts < table.grid[i]
                    /\ SeriesOf(c)[k + 1].ts > table.grid[i]
                    /\ SeriesOf(c)[k].value # SeriesOf(c)[k + 1].value
                    /\ table.columns[c][i] = Some(SeriesOf(c)[k].value * Scale)

\* C5: under MeanAggregate the value at a grid hour h is the mean of exactly
\* the raw samples with h <= t < h + 1h, each counted once, it is missing
\* exactly when the window is empty, and it is the sample's value when the
\* window holds one sample.
MeanAggregateAveragesWindow ==
    \A c \in DOMAIN table.columns :
        FillPolicy(table.source[c]) = "MeanAggregate" =>
            \A i \in 1..Len(table.grid) :
                LET s == SeriesOf(c)
                    window == {k \in 1..Len(s) :
                                  table.grid[i] <= s[k].ts /\ s[k].ts < table.grid[i] + HOUR}
                    cell == table.columns[c][i]
                IN  /\ IsMissing(cell) <=> window = {}
                    /\ window # {} =>
                          cell[1] * Cardinality(window)
                              = Scale * SumOver([k \in window |-> s[k].value], window)

\* C6: a value that is absent or unparseable is never represented as the
\* number zero: unparseable fields are dropped at load time, a grid position
\* without source data is missing, and a zero always stems from a sample
\* whose value is zero.
MissingNeverZero ==
    /\ \A s \in Sources :
          Len(LoadSeries(raw[s].records))
              = Cardinality({k \in 1..Len(raw[s].records) : raw[s].records[k].value.kind = "num"})
    /\ \A c \in DOMAIN table.columns :
          \A i \in 1..Len(table.grid) :
              table.columns[c][i] = Some(0) =>
                  \E k \in 1..Len(SeriesOf(c)) : SeriesOf(c)[k].value = 0
    /\ \A c \in DOMAIN features.X :
          \A j \in 1..Len(features.rows) :
              features.X[c][j] = 0 =>
                  \E k \in 1..j : table.columns[c][features.rows[k]] = Some(0)
    /\ \A i \in 1..Len(marketView) :
          marketView[i].close = Some(0) =>
              \E k \in 1..Len(raw["market"].records) :
                  /\ raw["market"].records[k].ts = marketView[i].date
                  /\ raw["market"].records[k].value = Num(0)

\* grid positions t with t + lag inside the grid at which env[t] and
\* market[t + lag] are both present
PairedRows(t, m, e, lag) ==
    {i \in 1..Len(t.grid) :
        /\ i + lag <= Len(t.grid)
        /\ ~IsMissing(t.columns[e][i])
        /\ ~IsMissing(t.columns[m][i + lag])}

\* the same with the roles exchanged: market[t] and env[t + lag]
ReversedRows(t, m, e, lag) ==
    {i \in 1..Len(t.grid) :
        /\ i + lag <= Len(t.grid)
        /\ ~IsMissing(t.columns[m][i])
        /\ ~IsMissing(t.columns[e][i + lag])}

EnvEarlier(t, m, e, lag) == [i \in PairedRows(t, m, e, lag) |-> t.columns[e][i]]

MarketLater(t, m, e, lag) == [i \in PairedRows(t, m, e, lag) |-> t.columns[m][i + lag]]

\* the (market column, environmental column, lag) triples of a table
Triples(t, cfg) ==
    {<<m, e, cfg.lags[k]>> :
        m \in {c \in DOMAIN t.columns : IsMarketColumn(c)},
        e \in {c \in DOMAIN t.columns : ~IsMarketColumn(c)},
        k \in 1..Len(cfg.lags)}

Reported(fs, tr) ==
    \E k \in 1..Len(fs) :
        /\ fs[k].market_factor = tr[1]
        /\ fs[k].environmental_factor = tr[2]
        /\ fs[k].lag_hours = tr[3]

\* the state right after a scan of the current table
JustScanned ==
    /\ analysisStatus = "success"
    /\ scanned = ScanLog(table, config)
    /\ findings = Scan(table, config)

\* C7: at lag L the scan pairs env[t] with market[t + L] for every grid
\* position t with t + L inside the grid: the sample of every evaluated
\* triple is that set of pairs and its coefficient is the coefficient of
\* those pairs; at L = 0 equal positions are paired.
PairsEnvWithLaterMarket ==
    [][Analyze =>
        \A k \in 1..Len(scanned') :
            LET ev == scanned'[k]
                T == PairedRows(table, ev.market_factor, ev.environmental_factor, ev.lag_hours)
            IN  /\ ev.sample_size = Cardinality(T)
                /\ ev.outcome \in {"finding", "weak"} =>
                      ev.correlation =
                          Pearson(EnvEarlier(table, ev.market_factor, ev.environmental_factor, ev.lag_hours),
                                  MarketLater(table, ev.market_factor, ev.environmental_factor, ev.lag_hours),
                                  T)]_vars

\* a finding at a positive lag whose coefficient is not the coefficient of
\* the pairs (market[t], env[t + L])
PairsEnvWithLaterMarketWitness ==
    /\ JustScanned
    /\ \E k \in 1..Len(scanned) :
          LET m == scanned[k].market_factor
              e == scanned[k].environmental_factor
              lag == scanned[k].lag_hours
              R == ReversedRows(table, m, e, lag)
              x == [i \in R |-> table.columns[e][i + lag]]
              y == [i \in R |-> table.columns[m][i]]
          IN  /\ lag > 0
              /\ scanned[k].outcome = "finding"
              /\ NCov(x, x, R) # 0
              /\ NCov(y, y, R) # 0
              /\ Pearson(x, y, R) # scanned[k].correlation

\* C8: the sample_size of every finding is the number of grid positions t
\* where env[t] and market[t + lag_hours] are both present, so it exceeds
\* neither the grid length nor the present count of either column.
SampleSizeCountsPairs ==
    [][Analyze =>
        \A k \in 1..Len(findings') :
            LET f == findings'[k]
            IN  /\ f.sample_size =
                      Cardinality(PairedRows(table, f.market_factor, f.environmental_factor, f.lag_hours))
                /\ f.sample_size <= Len(table.grid)
                /\ f.sample_size <= Cardinality(Present(table.columns[f.market_factor]))
                /\ f.sample_size <= Cardinality(Present(table.columns[f.environmental_factor]))]_vars

SampleSizeCountsPairsWitness ==
    /\ JustScanned
    /\ \E k \in 1..Len(findings) :
          /\ findings[k].lag_hours = 0
          /\ findings[k].sample_size < Len(table.grid)
          /\ findings[k].sample_size
                = Cardinality(Present(table.columns[findings[k].environmental_factor]))

\* C9: every finding has |coefficient| >= threshold and
\* sample_size >= min_sample_size, and a triple with fewer than
\* min_sample_size paired points is never reported.
FindingsPassBothFilters ==
    [][Analyze =>
        /\ \A k \in 1..Len(findings') :
              /\ Abs(findings'[k].correlation) >= config.threshold
              /\ findings'[k].sample_size >= config.min_sample_size
        /\ \A tr \in Triples(table, config) :
              Cardinality(PairedRows(table, tr[1], tr[2], tr[3])) < config.min_sample_size
                  => ~Reported(findings', tr)]_vars

\* a scan that reports a finding and drops a perfectly correlated triple
\* for having too few points
FindingsPassBothFiltersWitness ==
    /\ JustScanned
    /\ findings # <<>>
    /\ \E tr \in Triples(table, config) :
          LET T == PairedRows(table, tr[1], tr[2], tr[3])
              x == EnvEarlier(table, tr[1], tr[2], tr[3])
              y == MarketLater(table, tr[1], tr[2], tr[3])
          IN  /\ Cardinality(T) < config.min_sample_size
              /\ NCov(x, x, T) # 0
              /\ NCov(y, y, T) # 0
              /\ AtLeast(x, y, T, 100)
              /\ ~Reported(findings, tr)

\* the paired sample of a triple has zero variance in either series
ZeroVariance(t, tr) ==
    LET T == PairedRows(t, tr[1], tr[2], tr[3])
    IN  \/ NCov(EnvEarlier(t, tr[1], tr[2], tr[3]), EnvEarlier(t, tr[1], tr[2], tr[3]), T) = 0
        \/ NCov(MarketLater(t, tr[1], tr[2], tr[3]), MarketLater(t, tr[1], tr[2], tr[3]), T) = 0

\* C10: a triple whose paired sample has zero variance in either series
\* gives no finding and no error: the scan evaluates every triple and the
\* run ends in success.
ZeroVarianceIsSkipped ==
    [][Analyze =>
        /\ analysisStatus' = "success"
        /\ Len(scanned') = Cardinality(Triples(table, config))
        /\ \A tr \in Triples(table, config) :
              ZeroVariance(table, tr) => ~Reported(findings', tr)]_vars

\* a scan with a constant sample of sufficient size at one lag and a
\* finding at a later lag of the same pair
ZeroVarianceIsSkippedWitness ==
    /\ JustScanned
    /\ \E j, k \in 1..Len(scanned) :
          /\ j < k
          /\ scanned[j].sample_size >= config.min_sample_size
          /\ ZeroVariance(table, <<scanned[j].market_factor, scanned[j].environmental_factor,
                                   scanned[j].lag_hours>>)
          /\ scanned[k].outcome = "finding"

\* C11: in every emitted finding the type is instant exactly when
\* lag_hours = 0 and lagged exactly when lag_hours > 0, and lag_hours is a
\* configured lag and not negative.
KindFollowsLag ==
    [][Analyze =>
        \A k \in 1..Len(findings') :
            LET f == findings'[k]
            IN  /\ f.type = "instant" <=> f.lag_hours = 0
                /\ f.type = "lagged" <=> f.lag_hours > 0
                /\ f.lag_hours \in Range(config.lags)
                /\ f.lag_hours >= 0]_vars

\* a scan that emitted an instant finding and a lagged one
KindFollowsLagWitness ==
    /\ JustScanned
    /\ \E j, k \in 1..Len(findings) :
          /\ findings[j].lag_hours = 0
          /\ findings[j].type = "instant"
          /\ findings[k].lag_hours > 0
          /\ findings[k].type = "lagged"

\* a column id in the market_ namespace
InMarketNamespace(c) == c[1] = "market" /\ Len(c) > 1

MarketClass(t) == {c \in DOMAIN t.columns : InMarketNamespace(c)}

EnvClass(t) == {c \in DOMAIN t.columns : ~InMarketNamespace(c)}

\* C12: the scan takes as market columns exactly the columns in the
\* market_ namespace and as environmental columns all others; the pairs it
\* evaluates are exactly market x environmental, so every finding has a
\* market column and an environmental column and never pairs two columns
\* of one class or a column with itself.
ScanPartitionsColumns ==
    [][Analyze =>
        /\ {<<scanned'[k].market_factor, scanned'[k].environmental_factor>> :
                k \in 1..Len(scanned')}
              = MarketClass(table) \X EnvClass(table)
        /\ \A k \in 1..Len(findings') :
              /\ findings'[k].market_factor \in MarketClass(table)
              /\ findings'[k].environmental_factor \in EnvClass(table)
              /\ findings'[k].market_factor # findings'[k].environmental_factor]_vars

\* a scan of a table of two market and two environmental columns with
\* findings on two market columns and on two environmental columns
ScanPartitionsColumnsWitness ==
    /\ JustScanned
    /\ Cardinality(MarketClass(table)) = 2
    /\ Cardinality(EnvClass(table)) = 2
    /\ \E j, k \in 1..Len(findings) :
          /\ findings[j].market_factor # findings[k].market_factor
          /\ findings[j].environmental_factor # findings[k].environmental_factor

\* C13: the scan of a table without grid positions, without market
\* columns or without environmental columns returns no finding and ends
\* in success.
EmptyTableScansToNothing ==
    [][(/\ Analyze
        /\ \/ Len(table.grid) = 0
           \/ MarketClass(table) = {}
           \/ EnvClass(table) = {})
            => findings' = <<>> /\ analysisStatus' = "success"]_vars

\* a finished scan of a table that has rows and market columns only
EmptyTableScansToNothingWitness ==
    /\ JustScanned
    /\ Len(table.grid) > 0
    /\ MarketClass(table) # {}
    /\ EnvClass(table) = {}
    /\ findings = <<>>

\* the hourly points of the intersected range
RangeGrid ==
    LET start == RangeStart
    IN  [i \in 1..RangePoints |-> start + (i - 1) * HOUR]

\* source s has no sample anywhere on the grid: none at or before a grid
\* instant for ForwardFill, none inside the hour of a grid instant for
\* MeanAggregate
NoSamplesOnGrid(s, grid) ==
    LET series == LoadSeries(raw[s].records)
        times  == {series[k].ts : k \in 1..Len(series)}
        points == Range(grid)
    IN  \A ts \in times :
            \A g \in points :
                IF FillPolicy(s) = "ForwardFill"
                THEN ts > g
                ELSE ~(g <= ts /\ ts < g + HOUR)

AllMissing(col) == \A i \in 1..Len(col) : IsMissing(col[i])

\* C14: a source without a sample anywhere on the grid gets a column that
\* is missing at every position, the alignment run still succeeds when the
\* range of the sources has enough points, and the column is in no finding
\* of a later scan.
AllMissingColumnIsHarmless ==
    [][/\ LET points == RangePoints
              grid   == RangeGrid
          IN  \A s \in Sources :
                  (/\ raw[s].present
                   /\ points >= config.min_points
                   /\ NoSamplesOnGrid(s, grid)
                   /\ Align)
                      => /\ alignStatus' = "success"
                         /\ table'.grid = grid
                         /\ table'.columns[ColumnId(s)] = [i \in 1..points |-> Missing]
       /\ \A c \in DOMAIN table.columns :
            (/\ AllMissing(table.columns[c])
             /\ Analyze)
                => \A k \in 1..Len(findings') :
                        /\ findings'[k].market_factor # c
                        /\ findings'[k].environmental_factor # c]_vars

\* a scanned table of at least two rows in which one source has no sample
\* on the grid and the other source has values
AllMissingColumnIsHarmlessWitness ==
    /\ JustScanned
    /\ alignStatus = "success"
    /\ Len(table.grid) >= 2
    /\ scanned # <<>>
    /\ \E s, o \in Sources :
          /\ raw[s].present
          /\ NoSamplesOnGrid(s, table.grid)
          /\ AllMissing(table.columns[ColumnId(s)])
          /\ raw[o].present
          /\ ~AllMissing(table.columns[ColumnId(o)])

NamesInOrder == <<GcpZscore, SpyClose, VixClose, SchumannAmplitude>>

NamePlace(c) == CHOOSE i \in 1..Len(NamesInOrder) : NamesInOrder[i] = c

\* f is not after g: larger |coefficient|, on a tie smaller lag, on a
\* further tie column ids in lexical order
NotAfter(f, g) ==
    \/ Abs(f.correlation) > Abs(g.correlation)
    \/ /\ Abs(f.correlation) = Abs(g.correlation)
       /\ f.lag_hours < g.lag_hours
    \/ /\ Abs(f.correlation) = Abs(g.correlation)
       /\ f.lag_hours = g.lag_hours
       /\ <<NamePlace(f.market_factor), NamePlace(f.environmental_factor)>>
             \in {<<a, b>> \in (1..4) \X (1..4) :
                    \/ a < NamePlace(g.market_factor)
                    \/ /\ a = NamePlace(g.market_factor)
                       /\ b <= NamePlace(g.environmental_factor)}

\* C16: the ranked findings are the scan's findings ordered by descending
\* |coefficient|, ties by ascending lag_hours, further ties by lexical
\* order of the column ids; adjacent findings are in this order and the
\* findings in any other input order rank to the same sequence.
RankOrdersFindings ==
    [][Analyze =>
        LET r == payload'.top_correlations
        IN  /\ Len(r) = Len(findings')
            /\ Range(r) = Range(findings')
            /\ \A i \in 1..(Len(r) - 1) : NotAfter(r[i], r[i + 1])
            /\ Rank(Reverse(findings')) = r
            /\ Rank(r) = r]_vars

\* a ranking that reorders the scan's findings, with a tie in |coefficient|
\* decided by the lag and a tie in both decided by the column ids
RankOrdersFindingsWitness ==
    /\ JustScanned
    /\ payload.top_correlations # findings
    /\ \E i, j \in 1..(Len(payload.top_correlations) - 1) :
          LET r == payload.top_correlations
          IN  /\ Abs(r[i].correlation) = Abs(r[i + 1].correlation)
              /\ r[i].lag_hours < r[i + 1].lag_hours
              /\ Abs(r[j].correlation) = Abs(r[j + 1].correlation)
              /\ r[j].lag_hours = r[j + 1].lag_hours
              /\ r[j].correlation # r[j + 1].correlation

\* the band of a coefficient in hundredths by its absolute value
BandOf(c) ==
    IF c >= 70 \/ c <= -70 THEN "Very Strong"
    ELSE IF c >= 50 \/ c <= -50 THEN "Strong"
    ELSE IF c >= 40 \/ c <= -40 THEN "Moderate"
    ELSE "Weak"

\* the finding behind card i of the list the dashboard shows
ShownFinding(i) == payload.top_correlations[i]

\* C17: every finding shown is labelled by |coefficient| alone: very strong
\* from 0.7, strong in [0.5, 0.7), moderate in [0.4, 0.5), weak otherwise;
\* every coefficient in [-1, 1] gets exactly one band and c and -c the same.
StrengthBandsByMagnitude ==
    /\ \A i \in 1..Len(elements.correlationList) :
          elements.correlationList[i].strengthBadge.label = BandOf(ShownFinding(i).correlation)
    /\ \A c \in (-100)..100 :
          /\ GetStrengthLabel(c).label = BandOf(c)
          /\ GetStrengthLabel(c) = GetStrengthLabel(-c)
          /\ GetStrengthLabel(c).label \in {"Very Strong", "Strong", "Moderate", "Weak"}

\* a card shown for a negative coefficient of the moderate band
StrengthBandsByMagnitudeWitness ==
    \E i \in 1..Len(elements.correlationList) :
        /\ ShownFinding(i).correlation < 0
        /\ ShownFinding(i).correlation > -50
        /\ elements.correlationList[i].strengthBadge.label = "Moderate"

\* C18: a finding is shown as predictive (badge, lead-time footer, headline
\* about a later move) exactly when lag_hours > 0 and as concurrent
\* (real-time footer, headline about the same time) exactly when
\* lag_hours = 0; badge, footer and headline of one card agree.
PredictiveIffLagged ==
    \A i \in 1..Len(elements.correlationList) :
        LET card == elements.correlationList[i]
            lag == ShownFinding(i).lag_hours
        IN  /\ card.predictiveBadge <=> lag > 0
            /\ card.footer[1] = "Lead Time" <=> lag > 0
            /\ card.footer = <<"Timing", "Real-time">> <=> lag = 0
            /\ card.headline.later # <<>> <=> lag > 0
            /\ card.explanation.lead # <<>> <=> lag > 0
            /\ lag > 0 => card.footer[2] = lag /\ card.headline.later = <<lag>>

\* a list shown with a predictive card of one hour and a concurrent card
PredictiveIffLaggedWitness ==
    \E i, j \in 1..Len(elements.correlationList) :
        /\ ShownFinding(i).lag_hours = 1
        /\ elements.correlationList[i].predictiveBadge
        /\ ShownFinding(j).lag_hours = 0
        /\ elements.correlationList[j].footer = <<"Timing", "Real-time">>

\* C19: the direction shown for a finding is the sign of its coefficient:
\* positive exactly when the coefficient is > 0 and negative exactly when
\* it is < 0, for every finding that can be retained, a coefficient of 0
\* under threshold 0 included.
DirectionIsSign ==
    \A i \in 1..Len(elements.correlationList) :
        LET card == elements.correlationList[i]
            c == ShownFinding(i).correlation
        IN  /\ card.direction = "positive" <=> c > 0
            /\ card.direction = "negative" <=> c < 0
            /\ card.directionArrow = "up" <=> c > 0
            /\ card.directionArrow = "down" <=> c < 0
            /\ card.headline.verb \in {"tends to rise", "move together"} <=> c > 0
            /\ card.headline.verb \in {"tends to fall", "move in opposite directions"} <=> c < 0

\* C20: any two runs write their results under different identifiers, so
\* what a run has written is never overwritten or altered by another run:
\* every aligned snapshot and every findings payload stays as written.
RunsNeverOverwrite ==
    [][/\ \A k \in DOMAIN snapshots :
             k \in DOMAIN snapshots' /\ snapshots'[k] = snapshots[k]
       /\ payload.present => payload' = payload]_vars

\* ------------------------------------------------------------------------
\* Properties of publication
\* ------------------------------------------------------------------------
\* a table written in full: a column for every name, a value for every hour
Complete(t) ==
    /\ t # NoTable
    /\ DOMAIN t.columns = Range(t.order)
    /\ \A c \in DOMAIN t.columns : Len(t.columns[c]) = Len(t.grid)

FailedRunLeavesNoTrace ==
    [][\A r \in Runners :
          /\ FailRun(r) => current' = current /\ snapshots' = snapshots
          /\ WriteSnapshot(r) =>
                /\ current' = current
                /\ current # NoKey => snapshots'[current[1]] = snapshots[current[1]]]_vars

\* ------------------------------------------------------------------------
\* Properties of error handling
\* ------------------------------------------------------------------------
\* the sources without a record in the store
Unavailable == {s \in Sources : ~raw[s].present}

\* C23: a run aborts only on InsufficientOverlap: when the sources that have
\* samples overlap in enough hours the alignment succeeds, with a column for
\* every source that has a record and every source without one skipped,
\* whatever values failed to parse; and a scan never fails: it ends with
\* success and has evaluated every triple of the table, degenerate or not.
AbortsOnlyOnGridFailure ==
    /\ alignStatus \in {"idle", "success", "InsufficientOverlap"}
    /\ (alignStatus # "idle" /\ RangePoints >= config.min_points) =>
          /\ alignStatus = "success"
          /\ DOMAIN table.columns = {ColumnId(s) : s \in Sources \ Unavailable}
          /\ {e.item : e \in Range(summary.sources.skipped)} = Unavailable
    /\ analysisStatus \in {"idle", "success"}
    /\ Len(scanned) \in
          {0, Len(MarketColumns(table)) * Len(EnvColumns(table)) * Len(config.lags)}

\* an alignment that succeeded although one source has no record, followed
\* by a scan
AbortsOnlyOnGridFailureWitness ==
    /\ alignStatus = "success"
    /\ Unavailable # {}
    /\ Cardinality(DOMAIN table.columns) = 1
    /\ Len(summary.sources.skipped) = 1
    /\ analysisStatus = "success"

\* the items of a skipped list
SkippedItems(skipped) == {e.item : e \in Range(skipped)}

TripleOf(ev) == <<ev.market_factor, ev.environmental_factor, ev.lag_hours>>

\* C24: at the end of a run that does not abort every requested source, and
\* every scanned (pair, lag), is accounted for exactly once, as processed or
\* as skipped with its reason: the two counts add up to the number
\* attempted and the skipped list holds exactly the items that failed.
RunAccountsForEveryItem ==
    /\ alignStatus = "success" =>
          LET done == summary.sources.processed
              skipped == summary.sources.skipped
          IN  /\ Len(done) + Len(skipped) = Cardinality(Sources)
              /\ Range(done) \cup SkippedItems(skipped) = Sources
              /\ Range(done) \cap SkippedItems(skipped) = {}
              /\ SkippedItems(skipped) = Unavailable
              /\ \A e \in Range(skipped) : e.error = "SourceUnavailable"
    /\ analysisStatus = "success" =>
          LET done == summary.pairs.processed
              skipped == summary.pairs.skipped
              failed == {ev \in Range(scanned) : ev.outcome \in {"small", "degenerate"}}
          IN  /\ Len(done) + Len(skipped) = Len(scanned)
              /\ Range(done) \cup SkippedItems(skipped) = {TripleOf(ev) : ev \in Range(scanned)}
              /\ Range(done) \cap SkippedItems(skipped) = {}
              /\ Cardinality(Range(done)) = Len(done)
              /\ Cardinality(SkippedItems(skipped)) = Len(skipped)
              /\ SkippedItems(skipped) = {TripleOf(ev) : ev \in failed}
              /\ \A e \in Range(skipped) :
                    \E ev \in failed :
                        /\ TripleOf(ev) = e.item
                        /\ e.error = IF ev.outcome = "small"
                                     THEN "InsufficientSamples" ELSE "DegenerateSeries"

\* a run over two sources whose scan processed some triples and skipped others
RunAccountsForEveryItemWitness ==
    /\ alignStatus = "success"
    /\ Len(summary.sources.processed) = Cardinality(Sources)
    /\ analysisStatus = "success"
    /\ scanned = ScanLog(table, config)
    /\ Len(summary.pairs.processed) > 0
    /\ \E e, f \in Range(summary.pairs.skipped) :
          e.error = "DegenerateSeries" /\ f.error = "InsufficientSamples"

\* ------------------------------------------------------------------------
\* Properties of the findings payload
\* ------------------------------------------------------------------------
\* C25: the total of a findings payload is the number of findings the scan
\* of that run retained and its threshold is the threshold the scan used:
\* every finding listed has |coefficient| >= the reported threshold and the
\* list is not longer than the reported total.
PayloadReportsTheScan ==
    payload.present =>
        /\ payload.total_correlations_found = Len(findings)
        /\ payload.threshold = config.threshold
        /\ \A k \in 1..Len(payload.top_correlations) :
              Abs(payload.top_correlations[k].correlation) >= payload.threshold
        /\ Len(payload.top_correlations) <= payload.total_correlations_found

\* a payload of several findings, one of them short of a perfect
\* coefficient, from a scan with a positive threshold
PayloadReportsTheScanWitness ==
    /\ payload.present
    /\ payload.threshold > 0
    /\ payload.total_correlations_found >= 2
    /\ \E k \in 1..Len(payload.top_correlations) :
          Abs(payload.top_correlations[k].correlation) < 100

\* ------------------------------------------------------------------------
\* Properties of the lifecycle of a MasterTable
\* ------------------------------------------------------------------------
\* C26: a MasterTable an alignment run has produced is never changed
\* afterwards: a step that scans and ranks (it replaces the findings or the
\* payload) leaves the table and every persisted snapshot as they are, and
\* no step edits the grid or a column value of a snapshot persisted earlier,
\* a later alignment run persists a snapshot of its own.
TableNeverEdited ==
    [][/\ (findings' # findings \/ payload' # payload) =>
              table' = table /\ snapshots' = snapshots
       /\ \A k \in DOMAIN snapshots :
             /\ k \in DOMAIN snapshots'
             /\ snapshots'[k].grid = snapshots[k].grid
             /\ snapshots'[k].columns = snapshots[k].columns]_vars

\* ------------------------------------------------------------------------
\* Properties of the completeness of the scan
\* ------------------------------------------------------------------------
\* the triple's paired sample has at least min_sample_size points, non-zero
\* variance in both series and |coefficient| >= threshold
Qualifies(t, cfg, tr) ==
    LET T == PairedRows(t, tr[1], tr[2], tr[3])
        x == EnvEarlier(t, tr[1], tr[2], tr[3])
        y == MarketLater(t, tr[1], tr[2], tr[3])
    IN  /\ Cardinality(T) >= cfg.min_sample_size
        /\ NCov(x, x, T) # 0
        /\ NCov(y, y, T) # 0
        /\ AtLeast(x, y, T, cfg.threshold)

\* the positions of fs that report the triple
ReportsOf(fs, tr) ==
    {k \in 1..Len(fs) :
        /\ fs[k].market_factor = tr[1]
        /\ fs[k].environmental_factor = tr[2]
        /\ fs[k].lag_hours = tr[3]}

\* C27: a scan emits exactly one finding for every (market column,
\* environmental column, configured lag) triple that qualifies and none for
\* any other triple: no qualifying triple is dropped, adjacent lags of one
\* pair included, and no triple is reported twice.
ScanReportsEachQualifyingTripleOnce ==
    [][Analyze =>
        \A tr \in Triples(table, config) :
            Cardinality(ReportsOf(findings', tr))
                = IF Qualifies(table, config, tr) THEN 1 ELSE 0]_vars

\* a scan that reported two adjacent lags of one pair of columns and left
\* out a triple of sufficient sample that did not qualify
ScanReportsEachQualifyingTripleOnceWitness ==
    /\ JustScanned
    /\ \E j, k \in 1..Len(findings) :
          /\ findings[j].market_factor = findings[k].market_factor
          /\ findings[j].environmental_factor = findings[k].environmental_factor
          /\ findings[k].lag_hours = findings[j].lag_hours + 1
    /\ \E tr \in Triples(table, config) :
          /\ Cardinality(PairedRows(table, tr[1], tr[2], tr[3])) >= config.min_sample_size
          /\ config.min_sample_size > 0
          /\ ~Qualifies(table, config, tr)
          /\ ReportsOf(findings, tr) = {}

\* ------------------------------------------------------------------------
\* Properties of the dashboard
\* ------------------------------------------------------------------------
\* an enabled Trigger button of the source is in the grid
EnabledTrigger(s) == s \in DOMAIN sourcesGrid /\ ~sourcesGrid[s].disabled

\* C28: while an ingestion request started from a source's Trigger button
\* is unresolved, the grid holds no enabled Trigger button of that source,
\* also when a refresh of the status has rendered the grid in between.
NoTriggerWhilePending ==
    \A s \in Sources : Pending(s) > 0 => ~EnabledTrigger(s)

\* the trigger of the card has ended and every poll it scheduled has
\* completed
Settled(j) ==
    /\ ~cards[j].inflight
    /\ cards[j].held = 0
    /\ cards[j].polls = 0

\* C29: after triggerAlignment or triggerAnalysis the 'active' class of the
\* card is removed in the end: at once when the trigger fails, and when the
\* scheduled polls have completed, whatever they returned. A card whose
\* trigger has ended and whose polls have all completed is not 'active'.
ActiveEndsWithPolls ==
    \A j \in Jobs : Settled(j) => ~cards[j].active

\* C30: the activity log never holds more than maxActivityItems entries and
\* holds, newest first, exactly the entries of the most recent
\* min(n, maxActivityItems) of the n calls of logActivity so far: a call
\* beyond the cap evicts the one oldest entry and nothing else.
ActivityLogKeepsNewest ==
    LET n == Len(logged)
        m == IF n < maxActivityItems THEN n ELSE maxActivityItems
    IN  /\ Len(activityLog) <= maxActivityItems
        /\ Len(activityLog) = m
        /\ \A i \in 1..m : activityLog[i] = logged[n - i + 1]

\* a full log after calls beyond the cap: the first entries logged are gone,
\* the log spans entries of different messages and times
ActivityLogKeepsNewestWitness ==
    /\ Len(logged) = MaxCalls
    /\ Len(activityLog) = maxActivityItems
    /\ logged[1].message = <<"Status fetch failed">>
    /\ activityLog[maxActivityItems].message = <<"Status fetch failed">>
    /\ activityLog[1].message = <<"Status refresh completed">>
    /\ activityLog[1].time > activityLog[maxActivityItems].time

============================================================================
